---------------------------- MODULE Spec2Model ----------------------------
(***************************************************************************)
(* A model of sales-track: the HTML table parser (internal/parser), the    *)
(* sales record store and its reporting queries (internal/database).       *)
(*                                                                         *)
(* Text is modelled as a sequence of one-character strings, so that        *)
(* trimming, substring search, date layouts and number syntax are          *)
(* computed character by character as the Go code (and the library calls   *)
(* it makes) compute them.                                                 *)
(***************************************************************************)
EXTENDS Integers, Sequences, FiniteSets, TLC

(***************************************************************************)
(* Bounds of the model.                                                    *)
(***************************************************************************)
\* the greatest number of data rows of an enumerated input table
MaxRows == 3
\* the greatest number of records the store holds
MaxRecords == 2

(***************************************************************************)
(* Characters and strings.                                                 *)
(***************************************************************************)
Digits == {"0", "1", "2", "3", "4", "5", "6", "7", "8", "9"}

DigitVal(c) ==
    CASE c = "0" -> 0 [] c = "1" -> 1 [] c = "2" -> 2 [] c = "3" -> 3
      [] c = "4" -> 4 [] c = "5" -> 5 [] c = "6" -> 6 [] c = "7" -> 7
      [] c = "8" -> 8 [] c = "9" -> 9

DigitChar(n) ==
    CASE n = 0 -> "0" [] n = 1 -> "1" [] n = 2 -> "2" [] n = 3 -> "3"
      [] n = 4 -> "4" [] n = 5 -> "5" [] n = 6 -> "6" [] n = 7 -> "7"
      [] n = 8 -> "8" [] n = 9 -> "9"

\* strings.ToLower, on the letters of the model's alphabet
ToLowerChar(c) ==
    CASE c = "A" -> "a" [] c = "B" -> "b" [] c = "C" -> "c" [] c = "D" -> "d"
      [] c = "E" -> "e" [] c = "F" -> "f" [] c = "G" -> "g" [] c = "H" -> "h"
      [] c = "I" -> "i" [] c = "J" -> "j" [] c = "K" -> "k" [] c = "L" -> "l"
      [] c = "M" -> "m" [] c = "N" -> "n" [] c = "O" -> "o" [] c = "P" -> "p"
      [] c = "Q" -> "q" [] c = "R" -> "r" [] c = "S" -> "s" [] c = "T" -> "t"
      [] c = "U" -> "u" [] c = "V" -> "v" [] c = "W" -> "w" [] c = "X" -> "x"
      [] c = "Y" -> "y" [] c = "Z" -> "z" [] OTHER -> c

RECURSIVE ToLower(_)
ToLower(s) ==
    IF s = <<>> THEN <<>> ELSE <<ToLowerChar(Head(s))>> \o ToLower(Tail(s))

\* the tail of s from its n-th character on (s[n-1:] in Go)
Drop(s, n) == SubSeq(s, n + 1, Len(s))

Take(s, n) == SubSeq(s, 1, n)

HasPrefix(s, p) == Len(s) >= Len(p) /\ Take(s, Len(p)) = p

HasSuffix(s, p) == Len(s) >= Len(p) /\ Drop(s, Len(s) - Len(p)) = p

\* strings.Contains
Contains(s, sub) ==
    \/ sub = <<>>
    \/ \E i \in 1..(Len(s) - Len(sub) + 1) :
           s[i] = sub[1] /\ SubSeq(s, i, i + Len(sub) - 1) = sub

\* strings.Trim(s, cutset): leading and trailing characters of cutset removed
TrimSet(s, cutset) ==
    LET keep == {i \in 1..Len(s) : s[i] \notin cutset}
    IN  IF keep = {} THEN <<>>
        ELSE LET lo == CHOOSE i \in keep : \A j \in keep : i <= j
                 hi == CHOOSE i \in keep : \A j \in keep : i >= j
             IN  SubSeq(s, lo, hi)

WhiteSpace == {" ", "\t", "\n"}

\* strings.TrimSpace
TrimSpace(s) == TrimSet(s, WhiteSpace)

\* strings.ReplaceAll(s, c, "") for every character c of chars
RECURSIVE RemoveChars(_, _)
RemoveChars(s, chars) ==
    IF s = <<>> THEN <<>>
    ELSE IF Head(s) \in chars THEN RemoveChars(Tail(s), chars)
    ELSE <<Head(s)>> \o RemoveChars(Tail(s), chars)

AllDigits(s) == \A i \in 1..Len(s) : s[i] \in Digits

\* the value of a string of decimal digits
RECURSIVE DigitsVal(_)
DigitsVal(s) ==
    IF s = <<>> THEN 0
    ELSE 10 * DigitsVal(Take(s, Len(s) - 1)) + DigitVal(s[Len(s)])

\* the length of the longest prefix of s made of digits
RECURSIVE DigitRun(_)
DigitRun(s) ==
    IF s = <<>> \/ Head(s) \notin Digits THEN 0 ELSE 1 + DigitRun(Tail(s))

\* the length of the longest prefix of s made of spaces
RECURSIVE SpaceRun(_)
SpaceRun(s) ==
    IF s = <<>> \/ Head(s) # " " THEN 0 ELSE 1 + SpaceRun(Tail(s))

(***************************************************************************)
(* time.Parse, for the layout elements the program's layouts use.  A       *)
(* layout is the sequence of chunks nextStdChunk cuts it into: literal     *)
(* text (Lit) and standard elements (Std).                                 *)
(***************************************************************************)
Lit(s) == [k |-> "lit", s |-> s]

Std(name) == [k |-> name, s |-> <<>>]

longMonthNames ==
    <<<<"J","a","n","u","a","r","y">>,
      <<"F","e","b","r","u","a","r","y">>,
      <<"M","a","r","c","h">>,
      <<"A","p","r","i","l">>,
      <<"M","a","y">>,
      <<"J","u","n","e">>,
      <<"J","u","l","y">>,
      <<"A","u","g","u","s","t">>,
      <<"S","e","p","t","e","m","b","e","r">>,
      <<"O","c","t","o","b","e","r">>,
      <<"N","o","v","e","m","b","e","r">>,
      <<"D","e","c","e","m","b","e","r">>>>

shortMonthNames ==
    <<<<"J","a","n">>, <<"F","e","b">>, <<"M","a","r">>, <<"A","p","r">>, <<"M","a","y">>, <<"J","u","n">>, <<"J","u","l">>, <<"A","u","g">>, <<"S","e","p">>, <<"O","c","t">>, <<"N","o","v">>, <<"D","e","c">>>>

\* time.lookup: the index of the first name that value starts with, letter
\* case ignored; 0 when there is none
lookup(tab, value) ==
    LET hits == {i \in 1..Len(tab) :
                    /\ Len(value) >= Len(tab[i])
                    /\ ToLower(Take(value, Len(tab[i]))) = ToLower(tab[i])}
    IN  IF hits = {} THEN 0 ELSE CHOOSE i \in hits : \A j \in hits : i <= j

\* time.getnum: a one- or two-digit number; with fixed, exactly two digits
getnum(s, fixed) ==
    IF ~(Len(s) >= 1 /\ s[1] \in Digits) THEN [ok |-> FALSE, n |-> 0, rest |-> s]
    ELSE IF ~(Len(s) >= 2 /\ s[2] \in Digits)
         THEN IF fixed THEN [ok |-> FALSE, n |-> 0, rest |-> s]
              ELSE [ok |-> TRUE, n |-> DigitVal(s[1]), rest |-> Drop(s, 1)]
    ELSE [ok |-> TRUE, n |-> 10 * DigitVal(s[1]) + DigitVal(s[2]), rest |-> Drop(s, 2)]

\* time.skip: value with the literal prefix removed; a space of the layout
\* stands for any run of spaces of the value (an empty one at its end)
RECURSIVE skip(_, _)
skip(value, prefix) ==
    IF prefix = <<>> THEN [ok |-> TRUE, rest |-> value]
    ELSE IF Head(prefix) = " "
         THEN IF Len(value) > 0 /\ Head(value) # " " THEN [ok |-> FALSE, rest |-> value]
              ELSE skip(Drop(value, SpaceRun(value)), Drop(prefix, SpaceRun(prefix)))
    ELSE IF Len(value) = 0 \/ Head(value) # Head(prefix) THEN [ok |-> FALSE, rest |-> value]
    ELSE skip(Tail(value), Tail(prefix))

isLeap(year) == year % 4 = 0 /\ (year % 100 # 0 \/ year % 400 = 0)

\* time.daysIn
daysIn(month, year) ==
    IF month = 2 THEN (IF isLeap(year) THEN 29 ELSE 28)
    ELSE IF month \in {4, 6, 9, 11} THEN 30 ELSE 31

ParseFail == [ok |-> FALSE, year |-> 0, month |-> 0, day |-> 0]

\* one standard element read from value: the fields it sets and the rest of
\* value, or a failure (a syntax error or a value out of range)
ParseStd(std, value, acc) ==
    CASE std = "stdLongYear" ->
            IF Len(value) < 4 \/ ~AllDigits(Take(value, 4)) THEN [ok |-> FALSE]
            ELSE [ok |-> TRUE, rest |-> Drop(value, 4),
                  acc |-> [acc EXCEPT !.year = DigitsVal(Take(value, 4))]]
      [] std \in {"stdZeroMonth", "stdNumMonth"} ->
            LET g == getnum(value, std = "stdZeroMonth")
            IN  IF ~g.ok \/ g.n <= 0 \/ 12 < g.n THEN [ok |-> FALSE]
                ELSE [ok |-> TRUE, rest |-> g.rest, acc |-> [acc EXCEPT !.month = g.n]]
      [] std \in {"stdZeroDay", "stdDay"} ->
            LET g == getnum(value, std = "stdZeroDay")
            IN  IF ~g.ok THEN [ok |-> FALSE]
                ELSE [ok |-> TRUE, rest |-> g.rest, acc |-> [acc EXCEPT !.day = g.n]]
      [] std \in {"stdMonth", "stdLongMonth"} ->
            LET tab == IF std = "stdMonth" THEN shortMonthNames ELSE longMonthNames
                i == lookup(tab, value)
            IN  IF i = 0 THEN [ok |-> FALSE]
                ELSE [ok |-> TRUE, rest |-> Drop(value, Len(tab[i])),
                      acc |-> [acc EXCEPT !.month = i]]
      [] std = "stdHour" ->
            LET g == getnum(value, FALSE)
            IN  IF ~g.ok \/ 24 <= g.n THEN [ok |-> FALSE]
                ELSE [ok |-> TRUE, rest |-> g.rest, acc |-> acc]
      [] std = "stdZeroMinute" ->
            LET g == getnum(value, TRUE)
            IN  IF ~g.ok \/ 60 <= g.n THEN [ok |-> FALSE]
                ELSE [ok |-> TRUE, rest |-> g.rest, acc |-> acc]
      [] std = "stdZeroSecond" ->
            LET g == getnum(value, TRUE)
                r == g.rest
                \* a fractional second of the value that the layout does not
                \* name is read and dropped
                frac == Len(r) >= 2 /\ r[1] \in {".", ","} /\ r[2] \in Digits
            IN  IF ~g.ok \/ 60 <= g.n THEN [ok |-> FALSE]
                ELSE [ok |-> TRUE, acc |-> acc,
                      rest |-> IF frac THEN Drop(r, 1 + DigitRun(Drop(r, 1))) ELSE r]

RECURSIVE ParseChunks(_, _, _)
ParseChunks(layout, value, acc) ==
    IF layout = <<>>
    THEN \* the end of the layout: no text may be left, and the day must be
         \* one of its month
         IF Len(value) # 0 THEN ParseFail
         ELSE IF acc.day < 1 \/ acc.day > daysIn(acc.month, acc.year) THEN ParseFail
         ELSE acc
    ELSE IF Head(layout).k = "lit"
         THEN LET r == skip(value, Head(layout).s)
              IN  IF r.ok THEN ParseChunks(Tail(layout), r.rest, acc) ELSE ParseFail
    ELSE LET r == ParseStd(Head(layout).k, value, acc)
         IN  IF r.ok THEN ParseChunks(Tail(layout), r.rest, r.acc) ELSE ParseFail

\* time.Parse(layout, value): [ok, year, month, day]
TimeParse(layout, value) ==
    ParseChunks(layout, value, [ok |-> TRUE, year |-> 0, month |-> 1, day |-> 1])

Pad2(n) == <<DigitChar((n \div 10) % 10), DigitChar(n % 10)>>

Pad4(n) == Pad2(n \div 100) \o Pad2(n % 100)

\* Time.Format("2006-01-02")
FormatISO(t) == Pad4(t.year) \o <<"-">> \o Pad2(t.month) \o <<"-">> \o Pad2(t.day)

LayoutISO == <<Std("stdLongYear"), Lit(<<"-">>), Std("stdZeroMonth"), Lit(<<"-">>), Std("stdZeroDay")>>

\* the layouts with the day-first slash layouts before the month-first ones
formatsDayFirst ==
    <<<<Std("stdLongYear"), Lit(<<"-">>), Std("stdZeroMonth"), Lit(<<"-">>), Std("stdZeroDay")>>,
      <<Std("stdZeroDay"), Lit(<<"/">>), Std("stdZeroMonth"), Lit(<<"/">>), Std("stdLongYear")>>,
      <<Std("stdDay"), Lit(<<"/">>), Std("stdNumMonth"), Lit(<<"/">>), Std("stdLongYear")>>,
      <<Std("stdZeroMonth"), Lit(<<"/">>), Std("stdZeroDay"), Lit(<<"/">>), Std("stdLongYear")>>,
      <<Std("stdNumMonth"), Lit(<<"/">>), Std("stdDay"), Lit(<<"/">>), Std("stdLongYear")>>,
      <<Std("stdLongYear"), Lit(<<"/">>), Std("stdZeroMonth"), Lit(<<"/">>), Std("stdZeroDay")>>,
      <<Std("stdLongYear"), Lit(<<"/">>), Std("stdNumMonth"), Lit(<<"/">>), Std("stdDay")>>,
      <<Std("stdMonth"), Lit(<<" ">>), Std("stdDay"), Lit(<<","," ">>), Std("stdLongYear")>>,
      <<Std("stdLongMonth"), Lit(<<" ">>), Std("stdDay"), Lit(<<","," ">>), Std("stdLongYear")>>,
      <<Std("stdDay"), Lit(<<" ">>), Std("stdMonth"), Lit(<<" ">>), Std("stdLongYear")>>,
      <<Std("stdDay"), Lit(<<" ">>), Std("stdLongMonth"), Lit(<<" ">>), Std("stdLongYear")>>,
      <<Std("stdLongYear"), Lit(<<"-">>), Std("stdZeroMonth"), Lit(<<"-">>), Std("stdZeroDay"), Lit(<<" ">>), Std("stdHour"), Lit(<<":">>), Std("stdZeroMinute"), Lit(<<":">>), Std("stdZeroSecond")>>,
      <<Std("stdZeroMonth"), Lit(<<"/">>), Std("stdZeroDay"), Lit(<<"/">>), Std("stdLongYear"), Lit(<<" ">>), Std("stdHour"), Lit(<<":">>), Std("stdZeroMinute"), Lit(<<":">>), Std("stdZeroSecond")>>>>

\* the layouts of parseDate, in the order it tries them
formats ==
    <<<<Std("stdLongYear"), Lit(<<"-">>), Std("stdZeroMonth"), Lit(<<"-">>), Std("stdZeroDay")>>,
      <<Std("stdZeroMonth"), Lit(<<"/">>), Std("stdZeroDay"), Lit(<<"/">>), Std("stdLongYear")>>,
      <<Std("stdNumMonth"), Lit(<<"/">>), Std("stdDay"), Lit(<<"/">>), Std("stdLongYear")>>,
      <<Std("stdZeroDay"), Lit(<<"/">>), Std("stdZeroMonth"), Lit(<<"/">>), Std("stdLongYear")>>,
      <<Std("stdDay"), Lit(<<"/">>), Std("stdNumMonth"), Lit(<<"/">>), Std("stdLongYear")>>,
      <<Std("stdLongYear"), Lit(<<"/">>), Std("stdZeroMonth"), Lit(<<"/">>), Std("stdZeroDay")>>,
      <<Std("stdLongYear"), Lit(<<"/">>), Std("stdNumMonth"), Lit(<<"/">>), Std("stdDay")>>,
      <<Std("stdMonth"), Lit(<<" ">>), Std("stdDay"), Lit(<<","," ">>), Std("stdLongYear")>>,
      <<Std("stdLongMonth"), Lit(<<" ">>), Std("stdDay"), Lit(<<","," ">>), Std("stdLongYear")>>,
      <<Std("stdDay"), Lit(<<" ">>), Std("stdMonth"), Lit(<<" ">>), Std("stdLongYear")>>,
      <<Std("stdDay"), Lit(<<" ">>), Std("stdLongMonth"), Lit(<<" ">>), Std("stdLongYear")>>,
      <<Std("stdLongYear"), Lit(<<"-">>), Std("stdZeroMonth"), Lit(<<"-">>), Std("stdZeroDay"), Lit(<<" ">>), Std("stdHour"), Lit(<<":">>), Std("stdZeroMinute"), Lit(<<":">>), Std("stdZeroSecond")>>,
      <<Std("stdZeroMonth"), Lit(<<"/">>), Std("stdZeroDay"), Lit(<<"/">>), Std("stdLongYear"), Lit(<<" ">>), Std("stdHour"), Lit(<<":">>), Std("stdZeroMinute"), Lit(<<":">>), Std("stdZeroSecond")>>>>

\* parseDate: the first layout that accepts dateStr decides; the date is
\* returned in the form 2006-01-02
RECURSIVE parseDateFrom(_, _)
parseDateFrom(fs, dateStr) ==
    IF fs = <<>> THEN [ok |-> FALSE, date |-> <<>>]
    ELSE LET parsed == TimeParse(Head(fs), dateStr)
         IN  IF parsed.ok THEN [ok |-> TRUE, date |-> FormatISO(parsed)]
             ELSE parseDateFrom(Tail(fs), dateStr)

parseDate(dateStr) == parseDateFrom(formats, dateStr)

(***************************************************************************)
(* Amounts.  A float64 is modelled by the decimal number it stands for:    *)
(* [kind |-> "fin", num |-> n, scale |-> k] is n / 10^k with k least, and  *)
(* the kinds "inf" (num its sign) and "nan" are the values ParseFloat      *)
(* returns for the names it recognises.                                    *)
(***************************************************************************)
RECURSIVE Decimal(_, _)
Decimal(num, scale) ==
    IF scale > 0 /\ num % 10 = 0 THEN Decimal(num \div 10, scale - 1)
    ELSE [kind |-> "fin", num |-> num, scale |-> scale]

Zero == Decimal(0, 0)

\* v >= 0 as Go compares float64 values (false for NaN)
NonNegative(v) == v.kind # "nan" /\ v.num >= 0

\* strconv.ParseFloat(s, 64) on decimal syntax: an optional sign, digits with
\* at most one point and at least one digit; and the names inf, infinity
\* (signed or not) and nan, letter case ignored.  The enumerated cells hold
\* no exponent, hexadecimal or underscore form.
ParseFloat(s) ==
    LET signed == Len(s) >= 1 /\ s[1] \in {"+", "-"}
        neg == Len(s) >= 1 /\ s[1] = "-"
        body == IF signed THEN Tail(s) ELSE s
        low == ToLower(body)
        intLen == DigitRun(body)
        afterInt == Drop(body, intLen)
        hasPoint == Len(afterInt) >= 1 /\ afterInt[1] = "."
        fracPart == IF hasPoint THEN Tail(afterInt) ELSE <<>>
        mant == DigitsVal(Take(body, intLen) \o fracPart)
    IN  IF low \in {<<"i","n","f">>, <<"i","n","f","i","n","i","t","y">>}
        THEN [ok |-> TRUE, value |-> [kind |-> "inf", num |-> IF neg THEN -1 ELSE 1, scale |-> 0]]
        ELSE IF ~signed /\ low = <<"n","a","n">>
        THEN [ok |-> TRUE, value |-> [kind |-> "nan", num |-> 0, scale |-> 0]]
        ELSE IF /\ AllDigits(fracPart)
                /\ (hasPoint \/ afterInt = <<>>)
                /\ intLen + Len(fracPart) >= 1
        THEN [ok |-> TRUE, value |-> Decimal(IF neg THEN -mant ELSE mant, Len(fracPart))]
        ELSE [ok |-> FALSE, value |-> Zero]

CurrencySymbols == {"$", "€", "£", "¥", ",", " "}

\* parseCurrency: symbols, commas and spaces removed, a parenthesised value
\* made negative, the empty rest read as 0, anything else by ParseFloat
parseCurrency(currencyStr) ==
    LET stripped == RemoveChars(TrimSpace(currencyStr), CurrencySymbols)
        cleaned == IF HasPrefix(stripped, <<"(">>) /\ HasSuffix(stripped, <<")">>)
                   THEN <<"-">> \o TrimSet(stripped, {"(", ")"})
                   ELSE stripped
    IN  IF cleaned = <<>> THEN [ok |-> TRUE, value |-> Zero]
        ELSE ParseFloat(cleaned)

(***************************************************************************)
(* The parser: HTMLTableParser.                                            *)
(***************************************************************************)
Fields == {"store", "vendor", "date", "description", "sale_price", "commission", "remaining"}

requiredColumns == <<"store", "vendor", "date", "description", "sale_price">>

\* the accepted header texts of each field, in their declared order
ColumnMapping(f) ==
    CASE f = "store" ->
        <<<<"s","t","o","r","e">>,
          <<"s","h","o","p">>,
          <<"l","o","c","a","t","i","o","n">>,
          <<"o","u","t","l","e","t">>,
          <<"b","r","a","n","c","h">>,
          <<"s","t","o","r","e"," ","n","a","m","e">>,
          <<"s","h","o","p"," ","n","a","m","e">>>>
      [] f = "vendor" ->
        <<<<"v","e","n","d","o","r">>,
          <<"s","u","p","p","l","i","e","r">>,
          <<"b","r","a","n","d">>,
          <<"m","a","n","u","f","a","c","t","u","r","e","r">>,
          <<"c","o","m","p","a","n","y">>,
          <<"v","e","n","d","o","r"," ","n","a","m","e">>,
          <<"s","u","p","p","l","i","e","r"," ","n","a","m","e">>>>
      [] f = "date" ->
        <<<<"d","a","t","e">>,
          <<"s","a","l","e"," ","d","a","t","e">>,
          <<"t","r","a","n","s","a","c","t","i","o","n"," ","d","a","t","e">>,
          <<"o","r","d","e","r"," ","d","a","t","e">>,
          <<"p","u","r","c","h","a","s","e"," ","d","a","t","e">>,
          <<"s","o","l","d"," ","d","a","t","e">>>>
      [] f = "description" ->
        <<<<"d","e","s","c","r","i","p","t","i","o","n">>,
          <<"i","t","e","m">>,
          <<"p","r","o","d","u","c","t">>,
          <<"i","t","e","m"," ","d","e","s","c","r","i","p","t","i","o","n">>,
          <<"p","r","o","d","u","c","t"," ","d","e","s","c","r","i","p","t","i","o","n">>,
          <<"d","e","t","a","i","l","s">>,
          <<"n","a","m","e">>,
          <<"p","r","o","d","u","c","t"," ","n","a","m","e">>>>
      [] f = "sale_price" ->
        <<<<"s","a","l","e"," ","p","r","i","c","e">>,
          <<"p","r","i","c","e">>,
          <<"a","m","o","u","n","t">>,
          <<"t","o","t","a","l">>,
          <<"s","a","l","e"," ","a","m","o","u","n","t">>,
          <<"s","e","l","l","i","n","g"," ","p","r","i","c","e">>,
          <<"c","o","s","t">>,
          <<"v","a","l","u","e">>>>
      [] f = "commission" ->
        <<<<"c","o","m","m","i","s","s","i","o","n">>,
          <<"f","e","e">>,
          <<"c","o","m","m","i","s","s","i","o","n"," ","a","m","o","u","n","t">>,
          <<"c","o","m","m","i","s","s","i","o","n"," ","f","e","e">>,
          <<"c","o","m","m">>,
          <<"c","o","m","m","i","s","s","i","o","n"," ","%">>,
          <<"c","o","m","m","i","s","s","i","o","n"," ","r","a","t","e">>>>
      [] f = "remaining" ->
        <<<<"r","e","m","a","i","n","i","n","g">>,
          <<"b","a","l","a","n","c","e">>,
          <<"r","e","m","a","i","n","i","n","g"," ","b","a","l","a","n","c","e">>,
          <<"o","u","t","s","t","a","n","d","i","n","g">>,
          <<"d","u","e">>,
          <<"r","e","m","a","i","n","i","n","g"," ","a","m","o","u","n","t">>,
          <<"b","a","l","a","n","c","e"," ","d","u","e">>>>

\* NewHTMLTableParser
NewHTMLTableParser ==
    [StrictMode |-> FALSE, UsePositionalMapping |-> FALSE, PositionalColumns |-> <<>>]

\* SetPositionalMapping
SetPositionalMapping(p, columns) ==
    [p EXCEPT !.UsePositionalMapping = TRUE, !.PositionalColumns = columns]

\* SetConsignableMapping
SetConsignableMapping(p) ==
    SetPositionalMapping(p, <<"store", "vendor", "date", "description",
                              "sale_price", "commission", "remaining">>)

\* a validation that finds no required field missing
missingColumnsIgnored(mapping) == <<>>

\* validateRequiredColumns: the required fields the mapping lacks
missingColumns(mapping) ==
    SelectSeq(requiredColumns, LAMBDA col : col \notin DOMAIN mapping)

\* the test of one header against one accepted text: either contains the other
headerMatches(header, lowered) ==
    Contains(header, lowered) \/ Contains(lowered, header)

\* the headers as the matching sees them: trimmed and lower-cased
RECURSIVE normalizeHeaders(_)
normalizeHeaders(headers) ==
    IF headers = <<>> THEN <<>>
    ELSE <<ToLower(TrimSpace(Head(headers)))>> \o normalizeHeaders(Tail(headers))

\* the column a field resolves to by header matching, or -1: the accepted
\* texts are tried in order, and for the first one that some header matches
\* the first such header is taken
RECURSIVE matchVariations(_, _)
matchVariations(variations, normalizedHeaders) ==
    IF variations = <<>> THEN -1
    ELSE LET lowered == ToLower(Head(variations))
             matching == {i \in 1..Len(normalizedHeaders) :
                             headerMatches(normalizedHeaders[i], lowered)}
         IN  IF matching # {}
             THEN (CHOOSE i \in matching : \A j \in matching : i <= j) - 1
             ELSE matchVariations(Tail(variations), normalizedHeaders)

\* a matching that takes the first header that matches any accepted text
matchColumnHeaderFirst(expectedCol, normalizedHeaders) ==
    LET matching == {i \in 1..Len(normalizedHeaders) :
                        \E v \in 1..Len(ColumnMapping(expectedCol)) :
                            headerMatches(normalizedHeaders[i],
                                          ToLower(ColumnMapping(expectedCol)[v]))}
    IN  IF matching = {} THEN -1
        ELSE (CHOOSE i \in matching : \A j \in matching : i <= j) - 1

\* the column of one field: the loop of createColumnMapping over the
\* accepted texts of the field and, for each, over the headers
matchColumn(expectedCol, normalizedHeaders) ==
    matchVariations(ColumnMapping(expectedCol), normalizedHeaders)

\* the positional mapping: column i is the field named i-th; a field named
\* twice keeps its last position
positionalMapping(columns) ==
    [col \in {columns[i] : i \in 1..Len(columns)} |->
        (CHOOSE i \in 1..Len(columns) :
            /\ columns[i] = col
            /\ \A j \in 1..Len(columns) : columns[j] = col => j <= i) - 1]

\* a column count test that lets every header row pass
tooFewHeadersIgnored(headers, columns) == FALSE

\* the column count test of the positional mode: the header row has fewer
\* cells than the positional list has fields
tooFewHeaders(headers, columns) == Len(headers) < Len(columns)

\* a strict mode that asks for the required fields only
strictFailureRequiredOnly(p, mapping) ==
    p.StrictMode /\ \E i \in 1..Len(requiredColumns) : requiredColumns[i] \notin DOMAIN mapping

\* the failure of the strict mode: some field, required or not, that no
\* header matches
strictFailure(p, mapping) == p.StrictMode /\ DOMAIN mapping # Fields

\* createColumnMapping: [ok, mapping]; ok is FALSE for a structural failure
createColumnMapping(p, headers) ==
    IF p.UsePositionalMapping /\ Len(p.PositionalColumns) > 0
    THEN IF tooFewHeaders(headers, p.PositionalColumns)
         THEN [ok |-> FALSE, mapping |-> <<>>]
         ELSE LET mapping == positionalMapping(p.PositionalColumns)
              IN  IF missingColumns(mapping) # <<>>
                  THEN [ok |-> FALSE, mapping |-> <<>>]
                  ELSE [ok |-> TRUE, mapping |-> mapping]
    ELSE LET normalizedHeaders == normalizeHeaders(headers)
             col == [store |-> matchColumn("store", normalizedHeaders),
                     vendor |-> matchColumn("vendor", normalizedHeaders),
                     date |-> matchColumn("date", normalizedHeaders),
                     description |-> matchColumn("description", normalizedHeaders),
                     sale_price |-> matchColumn("sale_price", normalizedHeaders),
                     commission |-> matchColumn("commission", normalizedHeaders),
                     remaining |-> matchColumn("remaining", normalizedHeaders)]
             mapping == [f \in {g \in Fields : col[g] >= 0} |-> col[f]]
         IN  IF strictFailure(p, mapping)
             THEN [ok |-> FALSE, mapping |-> <<>>]
             ELSE IF missingColumns(mapping) # <<>>
             THEN [ok |-> FALSE, mapping |-> <<>>]
             ELSE [ok |-> TRUE, mapping |-> mapping]

\* a cell read that takes the last cell of a row that is too short
getCellClamped(row, columnMapping, column) ==
    IF column \in DOMAIN columnMapping /\ Len(row) > 0
    THEN TrimSpace(row[IF columnMapping[column] < Len(row)
                       THEN columnMapping[column] + 1 ELSE Len(row)])
    ELSE <<>>

\* getCell of parseRow: the trimmed cell of a mapped column, empty when the
\* field is not mapped or the row is too short
getCell(row, columnMapping, column) ==
    IF column \in DOMAIN columnMapping /\ columnMapping[column] < Len(row)
    THEN TrimSpace(row[columnMapping[column] + 1])
    ELSE <<>>

ParseIssue(rowNum, column, message, value) ==
    [Row |-> rowNum, Column |-> column, Message |-> message, Value |-> value]

\* the error of parseRow for a required text: one error when it is empty
requiredErrors(rowNum, column, message, cellStr) ==
    IF cellStr = <<>> THEN <<ParseIssue(rowNum, column, message, <<>>)>> ELSE <<>>

\* the error of parseRow for a required cell that is coerced (the date, the
\* sale price): one error when the cell is empty or is not coerced
coercedErrors(rowNum, column, emptyMessage, invalidMessage, cellStr, parsed) ==
    IF cellStr = <<>> THEN <<ParseIssue(rowNum, column, emptyMessage, <<>>)>>
    ELSE IF ~parsed.ok THEN <<ParseIssue(rowNum, column, invalidMessage, cellStr)>>
    ELSE <<>>

\* an optional amount that is defaulted without a warning
optionalWarningsDropped(rowNum, column, message, cellStr, parsed) == <<>>

\* the warnings of parseRow for one optional amount: one warning, carrying the
\* row number, the field and the cell, when the cell is not empty and
\* is not an amount
optionalWarnings(rowNum, column, message, cellStr, parsed) ==
    IF cellStr # <<>> /\ ~parsed.ok
    THEN <<ParseIssue(rowNum, column, message, cellStr)>>
    ELSE <<>>

\* the value parseRow gives an amount: 0 unless the cell is an amount
amountValue(cellStr, parsed) ==
    IF cellStr # <<>> /\ parsed.ok THEN parsed.value ELSE Zero

\* the value parseRow gives the date: empty unless the cell is a date
dateValue(dateStr, parsed) ==
    IF dateStr # <<>> /\ parsed.ok THEN parsed.date ELSE <<>>

\* parseRow, given the cells of the row and what parseDate and parseCurrency
\* make of them
parseCells(rowNum, store, vendor, dateStr, description, salePriceStr, commissionStr, remainingStr, parsedDate, price, commission, remaining) ==
    [record |->
        [Store |-> store,
         Vendor |-> vendor,
         Date |-> dateValue(dateStr, parsedDate),
         Description |-> description,
         SalePrice |-> amountValue(salePriceStr, price),
         Commission |-> amountValue(commissionStr, commission),
         Remaining |-> amountValue(remainingStr, remaining)],
     errors |->
        requiredErrors(rowNum, "store", "Store field is required but empty", store)
        \o requiredErrors(rowNum, "vendor", "Vendor field is required but empty", vendor)
        \o coercedErrors(rowNum, "date", "Date field is required but empty",
                         "Invalid date format", dateStr, parsedDate)
        \o requiredErrors(rowNum, "description",
                          "Description field is required but empty", description)
        \o coercedErrors(rowNum, "sale_price", "Sale price field is required but empty",
                         "Invalid sale price format", salePriceStr, price),
     warnings |->
        optionalWarnings(rowNum, "commission", "Invalid commission format, using 0.00",
                         commissionStr, commission)
        \o optionalWarnings(rowNum, "remaining", "Invalid remaining format, using 0.00",
                            remainingStr, remaining)]

\* parseRow: the record, the errors and the warnings of one data row
parseRow(row, columnMapping, rowNum) ==
    parseCells(rowNum,
               getCell(row, columnMapping, "store"),
               getCell(row, columnMapping, "vendor"),
               getCell(row, columnMapping, "date"),
               getCell(row, columnMapping, "description"),
               getCell(row, columnMapping, "sale_price"),
               getCell(row, columnMapping, "commission"),
               getCell(row, columnMapping, "remaining"),
               parseDate(getCell(row, columnMapping, "date")),
               parseCurrency(getCell(row, columnMapping, "sale_price")),
               parseCurrency(getCell(row, columnMapping, "commission")),
               parseCurrency(getCell(row, columnMapping, "remaining")))

\* getDisplayColumnName
getDisplayColumnName(internalName) ==
    CASE internalName = "store" -> <<"S","t","o","r","e">>
      [] internalName = "vendor" -> <<"V","e","n","d","o","r">>
      [] internalName = "date" -> <<"D","a","t","e">>
      [] internalName = "description" -> <<"D","e","s","c","r","i","p","t","i","o","n">>
      [] internalName = "sale_price" -> <<"S","a","l","e"," ","P","r","i","c","e">>
      [] internalName = "commission" -> <<"C","o","m","m","i","s","s","i","o","n">>
      [] internalName = "remaining" -> <<"R","e","m","a","i","n","i","n","g">>

(***************************************************************************)
(* The input.  A document is what html.Parse makes of the text: kind       *)
(* "tables" is text with table elements (tables, each a sequence of rows,  *)
(* each a sequence of cell texts), kind "rows" is text with row elements   *)
(* and no table element (tables holds the one run of bare rows), kind      *)
(* "text" is text with neither and with no tab or pipe character.          *)
(***************************************************************************)
\* looksLikeTableRows
looksLikeTableRows(htmlData) == htmlData.kind = "rows"

\* a wrapping that never adds a header row
wrapTableRowsWithoutHeader(p, htmlData) ==
    [kind |-> "tables", tables |-> <<htmlData.tables[1]>>]

\* wrapTableRows: the rows in one table, after a header row made of the
\* positional field names when positional mapping is on
wrapTableRows(p, htmlData) ==
    LET header ==
            IF p.UsePositionalMapping /\ Len(p.PositionalColumns) > 0
            THEN <<[i \in 1..Len(p.PositionalColumns) |->
                        getDisplayColumnName(p.PositionalColumns[i])]>>
            ELSE <<>>
    IN  [kind |-> "tables", tables |-> <<header \o htmlData.tables[1]>>]

\* cleanHTML
cleanHTML(p, htmlData) ==
    IF looksLikeTableRows(htmlData) THEN wrapTableRows(p, htmlData) ELSE htmlData

\* findTables
findTables(doc) == IF doc.kind = "tables" THEN doc.tables ELSE <<>>

\* countTableRows: every row element counts, with or without cells
countTableRows(table) == Len(table)

\* a comparison that lets a later table of the same row count win
isBetterOrSame(rowCount, maxRows) == rowCount >= maxRows

\* the comparison of selectBestTable: a table replaces the best one so far
\* when it has more rows
isBetter(rowCount, maxRows) == rowCount > maxRows

\* the loop of selectBestTable over tables[i..], best being the index of
\* bestTable: the index of the table the loop ends with
RECURSIVE bestTableFrom(_, _, _)
bestTableFrom(tables, i, best) ==
    IF i > Len(tables) THEN best
    ELSE bestTableFrom(tables, i + 1,
                       IF isBetter(countTableRows(tables[i]), countTableRows(tables[best]))
                       THEN i ELSE best)

\* selectBestTable
selectBestTable(tables) ==
    IF Len(tables) = 1 THEN tables[1] ELSE tables[bestTableFrom(tables, 2, 1)]

\* extractRowData: the trimmed text of the cells of a row
extractRowData(row) == [i \in 1..Len(row) |-> TrimSpace(row[i])]

\* extractTableData: the rows that have cells
extractTableData(table) ==
    LET rows == [i \in 1..Len(table) |-> extractRowData(table[i])]
    IN  SelectSeq(rows, LAMBDA row : Len(row) > 0)

(***************************************************************************)
(* Column type detection.  A pattern is a sequence of atoms [set, min,     *)
(* max]: between min and max characters of set (max -1: any number); it    *)
(* is matched at the start of the value, and up to its end when anchored.  *)
(***************************************************************************)
LowerLetters ==
    {"a", "b", "c", "d", "e", "f", "g", "h", "i", "j", "k", "l", "m",
     "n", "o", "p", "q", "r", "s", "t", "u", "v", "w", "x", "y", "z"}

Letters ==
    LowerLetters \cup
    {"A", "B", "C", "D", "E", "F", "G", "H", "I", "J", "K", "L", "M",
     "N", "O", "P", "Q", "R", "S", "T", "U", "V", "W", "X", "Y", "Z"}

Rep(set, min, max) == [set |-> set, min |-> min, max |-> max]

RECURSIVE RunIn(_, _)
RunIn(s, set) == IF s = <<>> \/ Head(s) \notin set THEN 0 ELSE 1 + RunIn(Tail(s), set)

RECURSIVE MatchPattern(_, _, _)
MatchPattern(atoms, s, anchored) ==
    IF atoms = <<>> THEN (anchored => s = <<>>)
    ELSE LET a == Head(atoms)
             run == RunIn(s, a.set)
             most == IF a.max = -1 \/ run < a.max THEN run ELSE a.max
         IN  \E n \in a.min..most : MatchPattern(Tail(atoms), Drop(s, n), anchored)

datePatterns ==
    << <<Rep(Digits, 4, 4), Rep({"-"}, 1, 1), Rep(Digits, 1, 2), Rep({"-"}, 1, 1),
         Rep(Digits, 1, 2)>>,
       <<Rep(Digits, 1, 2), Rep({"/"}, 1, 1), Rep(Digits, 1, 2), Rep({"/"}, 1, 1),
         Rep(Digits, 4, 4)>>,
       <<Rep(Digits, 1, 2), Rep({"-"}, 1, 1), Rep(Digits, 1, 2), Rep({"-"}, 1, 1),
         Rep(Digits, 4, 4)>>,
       <<Rep(Letters, 3, 9), Rep(WhiteSpace, 1, -1), Rep(Digits, 1, 2),
         Rep({","}, 0, 1), Rep(WhiteSpace, 1, -1), Rep(Digits, 4, 4)>> >>

\* looksLikeDate
looksLikeDate(value) ==
    \E i \in 1..Len(datePatterns) : MatchPattern(datePatterns[i], value, FALSE)

\* looksLikeCurrency: the first pattern is open at its end, the others closed
looksLikeCurrency(value) ==
    \/ MatchPattern(<<Rep({"$"}, 1, 1), Rep(Digits, 1, -1), Rep({"."}, 0, 1),
                      Rep(Digits, 0, -1)>>, value, FALSE)
    \/ MatchPattern(<<Rep(Digits, 1, -1), Rep({"."}, 1, 1), Rep(Digits, 2, 2)>>,
                    value, TRUE)
    \/ MatchPattern(<<Rep({"("}, 1, 1), Rep(Digits, 1, -1), Rep({"."}, 0, 1),
                      Rep(Digits, 0, -1), Rep({")"}, 1, 1)>>, value, TRUE)

\* the number of values of the sample that pass a test, empty values aside
CountIf(values, Test(_)) ==
    Cardinality({i \in 1..Len(values) :
                    TrimSpace(values[i]) # <<>> /\ Test(TrimSpace(values[i]))})

\* a vote that half of the sample wins
detectDataTypeByHalf(values) ==
    LET dateCount == CountIf(values, looksLikeDate)
        currencyCount == CountIf(values, looksLikeCurrency)
        numberCount == CountIf(values, LAMBDA v : ParseFloat(RemoveChars(v, {","})).ok)
        total == Len(values)
    IN  IF total = 0 THEN "unknown"
        ELSE IF dateCount >= (total + 1) \div 2 THEN "date"
        ELSE IF currencyCount >= (total + 1) \div 2 THEN "currency"
        ELSE IF numberCount >= (total + 1) \div 2 THEN "number"
        ELSE "text"

\* detectDataType
detectDataType(values) ==
    LET dateCount == CountIf(values, looksLikeDate)
        currencyCount == CountIf(values, looksLikeCurrency)
        numberCount == CountIf(values, LAMBDA v : ParseFloat(RemoveChars(v, {","})).ok)
        total == Len(values)
    IN  IF total = 0 THEN "unknown"
        ELSE IF dateCount > total \div 2 THEN "date"
        ELSE IF currencyCount > total \div 2 THEN "currency"
        ELSE IF numberCount > total \div 2 THEN "number"
        ELSE "text"

\* the rows sampled for a column: the first five data rows
SampleRows == 5

\* calculateStatistics: the detected type of each header whose column the
\* first data row has; a header text met twice keeps its last column's type
calculateStatistics(tableData) ==
    IF Len(tableData) < 2 THEN <<>>
    ELSE LET headers == tableData[1]
             cols == {i \in 1..Len(headers) : i <= Len(tableData[2])}
             last(h) == CHOOSE i \in cols :
                            headers[i] = h /\ \A j \in cols : headers[j] = h => j <= i
             sampled == SubSeq(tableData, 2,
                               IF Len(tableData) - 1 < SampleRows
                               THEN Len(tableData) ELSE SampleRows + 1)
             sample(i) ==
                 LET rs == SelectSeq(sampled, LAMBDA row : i <= Len(row))
                 IN  [k \in 1..Len(rs) |-> rs[k][i]]
         IN  [h \in {headers[i] : i \in cols} |-> detectDataType(sample(last(h)))]

(***************************************************************************)
(* The enumerated inputs.                                                  *)
(***************************************************************************)
HeaderFull ==
    <<<<"S","t","o","r","e">>,
      <<"V","e","n","d","o","r">>,
      <<"D","a","t","e">>,
      <<"D","e","s","c","r","i","p","t","i","o","n">>,
      <<"S","a","l","e"," ","P","r","i","c","e">>,
      <<"C","o","m","m","i","s","s","i","o","n">>,
      <<"R","e","m","a","i","n","i","n","g">>>>

\* a header row without the optional columns
HeaderRequired == SubSeq(HeaderFull, 1, 5)

\* a header row without a sale price column
HeaderNoPrice == SubSeq(HeaderFull, 1, 4)

\* a data row that decodes without error or warning
GoodRow ==
    <<<<"D","o","w","n","t","o","w","n">>,
      <<" ","A","c","m","e"," ">>,
      <<"2","0","2","4","-","0","1","-","1","5">>,
      <<"L","a","p","t","o","p">>,
      <<"$","8","9","9",".","9","9">>,
      <<"$","8","9",".","9","9">>,
      <<"8","1","0",".","0","0">>>>

\* GoodRow with the cell of column col (1..7) replaced
RowWith(col, cell) == [GoodRow EXCEPT ![col] = cell]

EmptyCell == <<>>

NegativeCell == <<"(","5","0",".","0","0",")">>

BadAmountCell == <<"n","/","a">>

\* a slash date that reads month-first and day-first alike
AmbiguousDateCell == <<"0","3","/","0","4","/","2","0","2","4">>

\* a slash date that reads day-first only
DayFirstDateCell == <<"1","3","/","0","4","/","2","0","2","4">>

BadDateCell == <<"n","o","t","-","a","-","d","a","t","e">>

\* the data rows tables are made of: GoodRow, GoodRow with one cell changed,
\* rows with two or more bad cells, and a row element without cells
RowPool ==
    {GoodRow}
    \cup {RowWith(col, EmptyCell) : col \in 1..7}
    \cup {RowWith(3, d) : d \in {AmbiguousDateCell, DayFirstDateCell, BadDateCell}}
    \cup {RowWith(col, NegativeCell) : col \in 5..7}
    \cup {RowWith(col, BadAmountCell) : col \in 5..7}
    \cup {[RowWith(1, EmptyCell) EXCEPT ![6] = BadAmountCell],
          [RowWith(6, BadAmountCell) EXCEPT ![7] = BadAmountCell],
          [RowWith(3, BadDateCell) EXCEPT ![5] = BadAmountCell],
          [c \in 1..7 |-> EmptyCell],
          <<>>}

\* a data row of three cells: store, vendor and date
ShortRow == SubSeq(GoodRow, 1, 3)

\* a header row of three cells
HeaderShort == SubSeq(HeaderFull, 1, 3)

\* header rows of accepted texts other than the first of each field
HeaderAlias ==
    <<<<"S","h","o","p"," ","N","a","m","e">>,
      <<"S","u","p","p","l","i","e","r">>,
      <<"S","a","l","e"," ","D","a","t","e">>,
      <<"P","r","o","d","u","c","t">>,
      <<"A","m","o","u","n","t">>>>

HeaderAliasFull ==
    <<<<"S","h","o","p"," ","N","a","m","e">>,
      <<"S","u","p","p","l","i","e","r">>,
      <<"S","a","l","e"," ","D","a","t","e">>,
      <<"P","r","o","d","u","c","t">>,
      <<"A","m","o","u","n","t">>,
      <<"F","e","e">>,
      <<"B","a","l","a","n","c","e">>>>

\* a header row whose first cell has an accepted text of description that is
\* not the first of its list
HeaderItemFirst ==
    <<<<"I","t","e","m">>,
      <<"S","t","o","r","e">>,
      <<"V","e","n","d","o","r">>,
      <<"D","a","t","e">>,
      <<"D","e","s","c","r","i","p","t","i","o","n">>,
      <<"S","a","l","e"," ","P","r","i","c","e">>>>

\* a header row of accepted texts of which one is part of the others
HeaderNames ==
    <<<<"S","t","o","r","e"," ","N","a","m","e">>,
      <<"V","e","n","d","o","r"," ","N","a","m","e">>,
      <<"D","a","t","e">>,
      <<"N","a","m","e">>,
      <<"P","r","i","c","e">>>>

\* a header row whose first cell is blank
HeaderBlankFirst ==
    <<<<" ">>,
      <<"S","t","o","r","e">>,
      <<"V","e","n","d","o","r">>,
      <<"D","a","t","e">>,
      <<"D","e","s","c","r","i","p","t","i","o","n">>,
      <<"S","a","l","e"," ","P","r","i","c","e">>>>

HeaderPool == {HeaderAlias, HeaderAliasFull, HeaderItemFirst, HeaderNames, HeaderBlankFirst}

\* the runs of bare rows of one or two rows, short rows among them
BareRowPool ==
    {<<ShortRow>>, <<GoodRow, ShortRow>>, <<ShortRow, GoodRow>>, <<GoodRow, GoodRow>>,
     <<<<>>, GoodRow>>, <<ShortRow, ShortRow>>}

\* the tables that inputs of several tables are made of: a header row and
\* one row, two rows that decode, three rows without cells, two rows under a
\* header without a sale price
TablePool ==
    {<<HeaderFull, GoodRow>>,
     <<HeaderFull, GoodRow, RowWith(3, AmbiguousDateCell)>>,
     <<<<>>, <<>>, <<>>>>,
     <<HeaderNoPrice, GoodRow, GoodRow>>}

\* the most tables in one input
MaxTables == 3

\* the rows that tables of several rows are made of
MultiRowPool ==
    {GoodRow,
     RowWith(3, AmbiguousDateCell),
     RowWith(6, BadAmountCell),
     [RowWith(1, EmptyCell) EXCEPT ![6] = BadAmountCell],
     <<>>}

RECURSIVE SeqsUpTo(_, _)
SeqsUpTo(S, n) ==
    IF n = 0 THEN {<<>>}
    ELSE LET shorter == SeqsUpTo(S, n - 1)
         IN  shorter \cup {Append(s, x) : s \in {t \in shorter : Len(t) = n - 1}, x \in S}

\* date cells: three numbers around a separator, the named-month and
\* date-and-time forms, and text no layout accepts
DateNumbers ==
    {<<"3">>, <<"0","3">>, <<"4">>, <<"1","3">>, <<"2","9">>, <<"3","1">>, <<"2">>, <<"0","2">>, <<"2","0","2","3">>, <<"2","0","2","4">>}

DashNumbers == {<<"0","3">>, <<"4">>, <<"1","3">>, <<"2","9">>, <<"2","0","2","4">>}

DateCells ==
    {a \o <<"/">> \o b \o <<"/">> \o c :
        a \in DateNumbers, b \in DateNumbers, c \in DateNumbers}
    \cup {a \o <<"-">> \o b \o <<"-">> \o c :
        a \in DashNumbers, b \in DashNumbers, c \in DashNumbers}
    \cup {<<"J","a","n"," ","1","5",","," ","2","0","2","4">>,
          <<"J","a","n","u","a","r","y"," ","1","5",","," ","2","0","2","4">>,
          <<"1","5"," ","J","a","n"," ","2","0","2","4">>,
          <<"1","5"," ","J","a","n","u","a","r","y"," ","2","0","2","4">>,
          <<"j","a","n"," ","5",",","2","0","2","4">>,
          <<"J","a","n"," "," ","5",","," ","2","0","2","4">>,
          <<"J","a","n","u"," ","5",","," ","2","0","2","4">>,
          <<"F","e","b"," ","3","0",","," ","2","0","2","4">>,
          <<"3","1"," ","A","p","r","i","l"," ","2","0","2","4">>,
          <<"M","a","y"," ","5",","," ","2","0","2","4">>,
          <<"2","0","2","4","-","0","3","-","0","4"," ","1","0",":","2","0",":","3","0">>,
          <<"2","0","2","4","-","0","3","-","0","4"," ","1","0",":","2","0",":","3","0",".","2","5">>,
          <<"2","0","2","4","-","0","3","-","0","4"," ","2","5",":","2","0",":","3","0">>,
          <<"0","3","/","0","4","/","2","0","2","4"," ","1","0",":","2","0",":","3","0">>,
          <<"2","0","2","4","-","0","3","-","0","4","T","1","0",":","2","0",":","3","0">>,
          <<"2","0","2","4","-","0","3","-","0","4","x">>,
          <<"0","3","-","0","4","-","2","4">>,
          <<"2","0","2","4","0","3","0","4">>}

\* the parser configurations
ParserDefault == NewHTMLTableParser

ParserStrict == [NewHTMLTableParser EXCEPT !.StrictMode = TRUE]

ParserConsignable == SetConsignableMapping(NewHTMLTableParser)

\* a positional mapping that names no sale price column
ParserCustom == SetPositionalMapping(NewHTMLTableParser, <<"store", "vendor", "date", "description">>)

Table(header, rows) == [kind |-> "tables", tables |-> <<<<header>> \o rows>>]

BareRows(rows) == [kind |-> "rows", tables |-> <<rows>>]

\* the calls of ParseHTML that are explored: [p, htmlData]
Calls ==
    \* the tables of up to MaxRows rows under the full header
    {[p |-> ParserDefault, htmlData |-> Table(HeaderFull, rows)] :
        rows \in SeqsUpTo(MultiRowPool, MaxRows)}
    \* one-row tables over the date cells
    \cup {[p |-> ParserDefault, htmlData |-> Table(HeaderFull, <<RowWith(3, d)>>)] :
            d \in DateCells}
    \* the other headers and configurations, over tables of one pool row
    \cup {[p |-> q, htmlData |-> Table(h, rows)] :
            q \in {ParserDefault, ParserStrict, ParserConsignable, ParserCustom},
            h \in {HeaderFull, HeaderRequired, HeaderNoPrice},
            rows \in SeqsUpTo(RowPool, 1)}
    \* bare rows, which the parser wraps
    \cup {[p |-> q, htmlData |-> BareRows(rows)] :
            q \in {ParserDefault, ParserConsignable, ParserCustom},
            rows \in SeqsUpTo(RowPool, 1) \ {<<>>}}
    \* bare rows of several rows and of short rows
    \cup {[p |-> q, htmlData |-> BareRows(rows)] :
            q \in {ParserDefault, ParserConsignable, ParserCustom},
            rows \in BareRowPool}
    \* tables of a short row, and tables under a short header
    \cup {[p |-> q, htmlData |-> Table(h, rows)] :
            q \in {ParserDefault, ParserConsignable},
            h \in {HeaderFull, HeaderShort},
            rows \in {<<ShortRow>>, <<GoodRow, ShortRow>>}}
    \* tables under the headers of other accepted texts
    \cup {[p |-> q, htmlData |-> Table(h, rows)] :
            q \in {ParserDefault, ParserStrict},
            h \in HeaderPool,
            rows \in {<<>>, <<GoodRow>>, <<RowWith(6, EmptyCell)>>}}
    \* rows without a header row inside a table element
    \cup {[p |-> q, htmlData |-> Table(GoodRow, rows)] :
            q \in {ParserConsignable, ParserCustom},
            rows \in {<<>>, <<GoodRow>>, <<RowWith(6, BadAmountCell)>>}}
    \* inputs of several tables
    \cup {[p |-> ParserDefault, htmlData |-> [kind |-> "tables", tables |-> ts]] :
            ts \in {t \in SeqsUpTo(TablePool, MaxTables) : Len(t) >= 2}}
    \* text without a table, and a table without a row that has cells
    \cup {[p |-> q, htmlData |-> d] :
            q \in {ParserDefault, ParserConsignable},
            d \in {[kind |-> "text", tables |-> <<>>],
                   [kind |-> "tables", tables |-> <<<<>>>>],
                   [kind |-> "tables", tables |-> << <<<<>>>> >>]}}

(***************************************************************************)
(* The state.                                                              *)
(***************************************************************************)
VARIABLES
    p,              \* ParseHTML: the parser (its configuration)
    htmlData,       \* ParseHTML: the input
    pc,             \* ParseHTML: "start", "rows" (in the row loop), "done"
                    \* (returned a result), "failed" (returned nil and an error)
    tableData,      \* ParseHTML: the cell grid of the selected table
    rowIdx,         \* ParseHTML: the index i of the row loop
    result,         \* ParseHTML: the ParseResult under construction
    err,            \* ParseHTML: the error returned, "" for nil
    threads,        \* the calls of ParseHTML that run at once on the parser p:
                    \* for each its input and its local variables
    salesRecords,   \* the rows of table sales_records
    nextId,         \* the id AUTOINCREMENT gives the next row
    resp,           \* the answer to the last request to the store or the App
    dbService,      \* App: whether the database service is set (not nil)
    schema,         \* the database of Migrate: table migrations and what the
                    \* SQL of the migrations did
    migrate         \* Migrate: the migrations of the build and the call

parserVars == <<p, htmlData, pc, tableData, rowIdx, result, err, threads>>

migrationVars == <<schema, migrate>>

storeVars == <<salesRecords, nextId, resp, dbService, migrationVars>>

vars == <<p, htmlData, pc, tableData, rowIdx, result, err, threads,
          salesRecords, nextId, resp, dbService, schema, migrate>>

NoResponse == [op |-> "none", args |-> <<>>, err |-> <<>>, records |-> <<>>]

\* a database before the first Migrate: no table migrations, no SQL run
NewSchema == [table |-> FALSE, recorded |-> {}, effects |-> <<>>, partial |-> {}]

\* no call of Migrate: the migrations of the build, none pending or attempted
NoMigrate(available) ==
    [available |-> available, pc |-> "idle", pending |-> <<>>, attempted |-> <<>>,
     err |-> <<>>]

\* the migrations are not followed
MigrateIdle == schema = NewSchema /\ migrate = NoMigrate(<<>>)

StoreIdle ==
    /\ salesRecords = {}
    /\ nextId = 1
    /\ resp = NoResponse
    /\ dbService = TRUE
    /\ MigrateIdle

(***************************************************************************)
(* ParseHTML.                                                              *)
(***************************************************************************)
\* the ParseResult that ParseHTML starts from
NewParseResult ==
    [Records |-> <<>>, TotalRows |-> 0, SuccessCount |-> 0, ErrorCount |-> 0,
     Errors |-> <<>>, Warnings |-> <<>>, ColumnMapping |-> <<>>,
     Statistics |-> [TablesFound |-> 0, HeadersDetected |-> <<>>,
                     DataTypesDetected |-> <<>>]]

\* the result of a call that returns nil and an error
Nil == [nil |-> TRUE]

\* a row number that leaves the header row out
rowNumWithoutHeader(i) == i + 1

\* the row number given to parseRow for index i of the row loop
rowNumOf(i) == i + 2

\* a row loop that fails a row for its warnings as for its errors
countRowWithoutWarnings(res, parsed) ==
    IF Len(parsed.errors) > 0 \/ Len(parsed.warnings) > 0
    THEN [res EXCEPT !.Errors = res.Errors \o parsed.errors,
                     !.ErrorCount = res.ErrorCount + 1,
                     !.Warnings = res.Warnings \o parsed.warnings]
    ELSE [res EXCEPT !.Records = Append(res.Records, parsed.record),
                     !.SuccessCount = res.SuccessCount + 1,
                     !.Warnings = res.Warnings \o parsed.warnings]

\* the body of the row loop after parseRow: the result with the row counted
\* as failed, or else with its record; with its warnings in both cases
countRow(res, parsed) ==
    IF Len(parsed.errors) > 0
    THEN [res EXCEPT !.Errors = res.Errors \o parsed.errors,
                     !.ErrorCount = res.ErrorCount + 1,
                     !.Warnings = res.Warnings \o parsed.warnings]
    ELSE [res EXCEPT !.Records = Append(res.Records, parsed.record),
                     !.SuccessCount = res.SuccessCount + 1,
                     !.Warnings = res.Warnings \o parsed.warnings]

\* the body of the row loop: the result with one data row accounted for
decodeRow(res, row, columnMapping, rowNum) ==
    countRow(res, parseRow(row, columnMapping, rowNum))

\* a total row count that takes the header row for a data row
totalRowsWithHeader(grid) == Len(grid)

\* the total row count: the rows of the grid less the header row
totalRowsOf(grid) == Len(grid) - 1

\* a statistics pass that counts the rows of the grid again, header included
withStatisticsRecounted(res, grid) ==
    [res EXCEPT !.Statistics.DataTypesDetected = calculateStatistics(grid),
                !.TotalRows = Len(grid)]

\* the call of calculateStatistics on the result: the detected types are
\* written into its statistics
withStatistics(res, grid) ==
    [res EXCEPT !.Statistics.DataTypesDetected = calculateStatistics(grid)]

ParseInit ==
    /\ \E call \in Calls : p = call.p /\ htmlData = call.htmlData
    /\ pc = "start"
    /\ tableData = <<>>
    /\ rowIdx = 0
    /\ result = NewParseResult
    /\ err = ""
    /\ threads = <<>>

\* the tables found in the cleaned input
FoundTables == findTables(cleanHTML(p, htmlData))

\* ParseHTML returns "no HTML tables found"
ReturnNoTables ==
    /\ pc = "start"
    /\ Len(FoundTables) = 0
    /\ pc' = "failed"
    /\ err' = "no HTML tables found in the provided data"
    /\ result' = Nil
    /\ UNCHANGED <<p, htmlData, tableData, rowIdx>>
    /\ UNCHANGED <<threads, storeVars>>

\* ParseHTML returns "no data rows found"
ReturnNoRows ==
    /\ pc = "start"
    /\ Len(FoundTables) > 0
    /\ extractTableData(selectBestTable(FoundTables)) = <<>>
    /\ pc' = "failed"
    /\ err' = "no data rows found in table"
    /\ result' = Nil
    /\ UNCHANGED <<p, htmlData, tableData, rowIdx>>
    /\ UNCHANGED <<threads, storeVars>>

\* ParseHTML returns "failed to map columns"
ReturnMapError ==
    /\ pc = "start"
    /\ Len(FoundTables) > 0
    /\ LET grid == extractTableData(selectBestTable(FoundTables))
       IN  /\ grid # <<>>
           /\ ~createColumnMapping(p, grid[1]).ok
           /\ tableData' = grid
           /\ result' = Nil
    /\ pc' = "failed"
    /\ err' = "failed to map columns"
    /\ UNCHANGED <<p, htmlData, rowIdx>>
    /\ UNCHANGED <<threads, storeVars>>

\* ParseHTML reaches its row loop
EnterRows ==
    /\ pc = "start"
    /\ Len(FoundTables) > 0
    /\ LET grid == extractTableData(selectBestTable(FoundTables))
       IN  /\ grid # <<>>
           /\ createColumnMapping(p, grid[1]).ok
           /\ tableData' = grid
           /\ result' = [result EXCEPT !.Statistics.TablesFound = Len(FoundTables),
                                       !.Statistics.HeadersDetected = grid[1],
                                       !.TotalRows = totalRowsOf(grid),
                                       !.ColumnMapping =
                                           createColumnMapping(p, grid[1]).mapping]
    /\ pc' = "rows"
    /\ rowIdx' = 0
    /\ UNCHANGED <<p, htmlData, err>>
    /\ UNCHANGED <<threads, storeVars>>

\* one turn of the row loop
ParseRowStep ==
    /\ pc = "rows"
    /\ rowIdx < Len(tableData) - 1
    /\ result' = decodeRow(result, tableData[rowIdx + 2], result.ColumnMapping,
                           rowNumOf(rowIdx))
    /\ rowIdx' = rowIdx + 1
    /\ UNCHANGED <<p, htmlData, pc, tableData, err>>
    /\ UNCHANGED <<threads, storeVars>>

\* the end of the row loop: the statistics, and the return of the result
ReturnResult ==
    /\ pc = "rows"
    /\ rowIdx = Len(tableData) - 1
    /\ result' = withStatistics(result, tableData)
    /\ pc' = "done"
    /\ UNCHANGED <<p, htmlData, tableData, rowIdx, err>>
    /\ UNCHANGED <<threads, storeVars>>

Init == ParseInit /\ StoreIdle

Next ==
    \/ ReturnNoTables
    \/ ReturnNoRows
    \/ ReturnMapError
    \/ EnterRows
    \/ ParseRowStep
    \/ ReturnResult

Spec == Init /\ [][Next]_vars

(***************************************************************************)
(* Several calls of ParseHTML at once on one parser.  Each call has its    *)
(* input and its local variables; the parser p is the one thing the calls  *)
(* share.  A step of a call is the start of ParseHTML up to its row loop,  *)
(* one turn of the row loop, or the statistics and the return.             *)
(***************************************************************************)
\* the calls that run at once
MaxCalls == 2

\* a call of ParseHTML on the parser q, before its first step; config is the
\* parser as it is when the call is made
NewCall(q, html) ==
    [config |-> q, htmlData |-> html, pc |-> "start", tableData |-> <<>>,
     rowIdx |-> 0, result |-> NewParseResult, err |-> ""]

\* the return of nil and an error
failCall(c, message) == [c EXCEPT !.pc = "failed", !.err = message, !.result = Nil]

\* ParseHTML from the grid on: the counts, the headers and the column mapping
mapCall(c, found, grid, columns) ==
    IF ~columns.ok
    THEN [failCall(c, "failed to map columns") EXCEPT !.tableData = grid]
    ELSE [c EXCEPT !.pc = "rows",
                   !.tableData = grid,
                   !.result = [c.result EXCEPT !.Statistics.TablesFound = found,
                                               !.Statistics.HeadersDetected = grid[1],
                                               !.TotalRows = totalRowsOf(grid),
                                               !.ColumnMapping = columns.mapping]]

\* ParseHTML from the selected grid on
gridCall(q, c, found, grid) ==
    IF grid = <<>> THEN failCall(c, "no data rows found in table")
    ELSE mapCall(c, found, grid, createColumnMapping(q, grid[1]))

\* ParseHTML from the tables found on
tablesCall(q, c, tables) ==
    IF Len(tables) = 0 THEN failCall(c, "no HTML tables found in the provided data")
    ELSE gridCall(q, c, Len(tables), extractTableData(selectBestTable(tables)))

\* one step of the call c on the parser q
stepCall(q, c) ==
    IF c.pc = "start" THEN tablesCall(q, c, findTables(cleanHTML(q, c.htmlData)))
    ELSE IF c.pc = "rows" /\ c.rowIdx < Len(c.tableData) - 1
    THEN [c EXCEPT !.result = decodeRow(c.result, c.tableData[c.rowIdx + 2],
                                        c.result.ColumnMapping, rowNumOf(c.rowIdx)),
                   !.rowIdx = c.rowIdx + 1]
    ELSE IF c.pc = "rows"
    THEN [c EXCEPT !.result = withStatistics(c.result, c.tableData), !.pc = "done"]
    ELSE c

\* the call run to its return with no other call on the parser
RECURSIVE runCall(_, _)
runCall(q, c) ==
    IF c.pc \in {"done", "failed"} THEN c
    ELSE CHOOSE last \in {runCall(q, next) : next \in {stepCall(q, c)}} : TRUE

\* a ParseHTML that turns the Consignable mapping on when it meets bare rows
parserAfterStepDetecting(q, c) ==
    IF c.pc = "start" /\ looksLikeTableRows(c.htmlData) THEN SetConsignableMapping(q) ELSE q

\* the parser after a step of a call: ParseHTML and what it calls read the
\* fields of the parser and assign none
parserAfterStep(q, c) == q

\* the inputs of the calls that run at once
CallInputs ==
    {BareRows(<<GoodRow, ShortRow>>),
     Table(HeaderFull, <<RowWith(6, BadAmountCell)>>),
     Table(HeaderNoPrice, <<GoodRow>>),
     [kind |-> "text", tables |-> <<>>]}

\* the parsers the calls run on
CallParsers == {ParserDefault, ParserConsignable}

InitCalls ==
    /\ p \in CallParsers
    /\ \E inputs \in [1..MaxCalls -> CallInputs] :
           threads = [t \in 1..MaxCalls |-> NewCall(p, inputs[t])]
    /\ htmlData = [kind |-> "text", tables |-> <<>>]
    /\ pc = "idle"
    /\ tableData = <<>>
    /\ rowIdx = 0
    /\ result = NewParseResult
    /\ err = ""
    /\ StoreIdle

\* the step of call t, the other calls left as they are
Step(t) ==
    /\ threads' = [threads EXCEPT ![t] = stepCall(p, threads[t])]
    /\ p' = parserAfterStep(p, threads[t])
    /\ UNCHANGED <<htmlData, pc, tableData, rowIdx, result, err, storeVars>>

\* a call goes from its start to its row loop, or returns an error
CallStart == \E t \in 1..MaxCalls : threads[t].pc = "start" /\ Step(t)

\* a call decodes a row
CallRow ==
    \E t \in 1..MaxCalls :
        /\ threads[t].pc = "rows"
        /\ threads[t].rowIdx < Len(threads[t].tableData) - 1
        /\ Step(t)

\* a call computes its statistics and returns its result
CallReturn ==
    \E t \in 1..MaxCalls :
        /\ threads[t].pc = "rows"
        /\ threads[t].rowIdx = Len(threads[t].tableData) - 1
        /\ Step(t)

NextCalls ==
    \/ CallStart
    \/ CallRow
    \/ CallReturn

SpecCalls == InitCalls /\ [][NextCalls]_vars

\* what call t returns is what it returns when run alone on its input and on
\* the parser as it was when the call was made
ReturnsAsAlone(t) ==
    threads[t].pc \in {"done", "failed"} =>
        LET alone == runCall(threads[t].config, NewCall(threads[t].config, threads[t].htmlData))
        IN  /\ threads[t].result = alone.result
            /\ threads[t].err = alone.err

\* C18: no step of a call of ParseHTML assigns a field of the parser, so the
\* parser stays as it was when the calls were made; and for every
\* interleaving of the steps of the calls, each call returns the records,
\* counts, issues, column mapping and error that it returns when run alone
\* on the same input and the same parser.
C18_CallsAreIndependent ==
    /\ [][p' = p]_vars
    /\ [](\A t \in DOMAIN threads : threads[t].config = p /\ ReturnsAsAlone(t))

\* call 1 has returned the result of two bare rows under the Consignable
\* mapping while call 2, on a table, is in its row loop
C18_Witness ==
    /\ Len(threads) = 2
    /\ p = ParserConsignable
    /\ threads[1].pc = "done"
    /\ threads[1].htmlData.kind = "rows"
    /\ threads[1].result.TotalRows = 2
    /\ threads[1].result.SuccessCount = 1
    /\ threads[2].pc = "rows"
    /\ threads[2].htmlData.kind = "tables"
    /\ threads[2].rowIdx = 1

(***************************************************************************)
(* Properties of ParseHTML.                                                *)
(***************************************************************************)
\* ParseHTML is in its row loop or has returned a result
InLoop == pc \in {"rows", "done"}

\* the table ParseHTML selects in its input
SelectedTable == selectBestTable(FoundTables)

\* the k-th data row of the selected table (k = 1: the row after the header)
DataRow(k) == tableData[k + 1]

\* the row has every required field: store, vendor and description not
\* empty, a date some layout accepts, a sale price that is an amount
RowAccepted(row) ==
    LET cell(f) == getCell(row, result.ColumnMapping, f)
    IN  /\ cell("store") # <<>>
        /\ cell("vendor") # <<>>
        /\ cell("description") # <<>>
        /\ cell("date") # <<>>
        /\ \E i \in 1..Len(formats) : TimeParse(formats[i], cell("date")).ok
        /\ cell("sale_price") # <<>>
        /\ parseCurrency(cell("sale_price")).ok

\* the accepted rows among the first k data rows, in their order
AcceptedUpTo(k) == SelectSeq(SubSeq(tableData, 2, k + 1), RowAccepted)

\* the record of the k-th data row, an accepted row, in the result
RecordOf(k) == result.Records[Len(AcceptedUpTo(k))]

\* the issues of a list that carry the given row number and field
IssuesAt(issues, rowNum, column) ==
    SelectSeq(issues, LAMBDA issue : issue.Row = rowNum /\ issue.Column = column)

\* C1: whenever ParseHTML returns a result, SuccessCount + ErrorCount equals
\* TotalRows and the number of records equals SuccessCount, TotalRows being
\* the rows with cells of the selected table less the header row; every data
\* row decoded adds one to exactly one of the two counters, so that after i
\* rows the two counters add up to i.
C1_CountsAddUp ==
    InLoop =>
        /\ result.SuccessCount + result.ErrorCount = rowIdx
        /\ Len(result.Records) = result.SuccessCount
        /\ result.TotalRows =
               Cardinality({i \in 1..Len(SelectedTable) : SelectedTable[i] # <<>>}) - 1
        /\ pc = "done" =>
               result.SuccessCount + result.ErrorCount = result.TotalRows

\* a result over a table with a row without cells, one row decoded and one
\* row failed
C1_Witness ==
    /\ pc = "done"
    /\ result.SuccessCount = 1
    /\ result.ErrorCount = 1
    /\ Len(SelectedTable) = 4

\* C2: a data row contributes a record exactly when it has no error, that is
\* when its store, vendor and description are not empty, its date is not
\* empty and is accepted by a layout and its sale price is not empty and is
\* an amount; warnings do not exclude a row, a failed row changes nothing
\* for the other rows, and the records keep the order of the rows.
C2_RecordsAreTheAcceptedRows ==
    InLoop =>
        LET accepted == AcceptedUpTo(rowIdx)
        IN  /\ Len(result.Records) = Len(accepted)
            /\ \A j \in 1..Len(accepted) :
                   result.Records[j] =
                       parseRow(accepted[j], result.ColumnMapping, 0).record
            /\ result.ErrorCount = rowIdx - Len(accepted)
            /\ \A k \in 1..rowIdx :
                   RowAccepted(DataRow(k))
                       <=> \A e \in 1..Len(result.Errors) :
                               result.Errors[e].Row # rowNumOf(k - 1)

\* a result with two different records in row order, the second from a row
\* with a warning, and a failed row that has an error and a warning
C2_Witness ==
    /\ pc = "done"
    /\ Len(result.Records) = 2
    /\ result.Records[1].Date # result.Records[2].Date
    /\ RowAccepted(DataRow(1))
    /\ result.Records[1] = parseRow(DataRow(1), result.ColumnMapping, 0).record
    /\ \E e \in 1..Len(result.Errors), w \in 1..Len(result.Warnings) :
           result.Errors[e].Row = result.Warnings[w].Row

\* the headers, of the normalized headers nh, that match an accepted text
MatchingHeaders(nh, text) ==
    {h \in 1..Len(nh) : headerMatches(nh[h], ToLower(text))}

\* some header of nh matches the v-th accepted text of the field
TextMatched(nh, f, v) ==
    \E h \in 1..Len(nh) : headerMatches(nh[h], ToLower(ColumnMapping(f)[v]))

\* some header of nh matches some accepted text of the field
Matched(nh, f) == \E v \in 1..Len(ColumnMapping(f)) : TextMatched(nh, f, v)

\* the first accepted text of the field that some header of nh matches
FirstMatchedText(nh, f) ==
    CHOOSE v \in 1..Len(ColumnMapping(f)) :
        TextMatched(nh, f, v) /\ \A w \in 1..(v - 1) : ~TextMatched(nh, f, w)

\* the field is given a column: by a header of the first row that matches
\* one of its accepted texts, or by its place in the positional list
Resolves(nh, f) ==
    IF p.UsePositionalMapping /\ Len(p.PositionalColumns) > 0
    THEN \E i \in 1..Len(p.PositionalColumns) : p.PositionalColumns[i] = f
    ELSE Matched(nh, f)

\* C3: a structural failure (no table, or a required field that no column is
\* resolved for, by header matching or by position) makes ParseHTML return
\* an error and no result; no row is decoded before it, so the row loop is
\* only ever entered with a table and with every required field resolved.
C3_StructuralFailure ==
    /\ pc = "failed" => result = Nil /\ err # "" /\ rowIdx = 0
    /\ InLoop =>
           /\ err = ""
           /\ Len(FoundTables) > 0
           /\ \E nh \in {normalizeHeaders(tableData[1])} :
                  \A i \in 1..Len(requiredColumns) :
                      /\ requiredColumns[i] \in DOMAIN result.ColumnMapping
                      /\ Resolves(nh, requiredColumns[i])

\* a table with a data row and without a sale price header: an error and no
\* result, the row not decoded
C3_Witness ==
    /\ pc = "failed"
    /\ result = Nil
    /\ err = "failed to map columns"
    /\ ~p.UsePositionalMapping
    /\ Len(tableData) = 2
    /\ tableData[1] = HeaderNoPrice

\* C4: every record of a result has a sale price, a commission and a
\* remaining amount that are not negative, for every input, cells in the
\* parenthesised form included.
C4_AmountsNotNegative ==
    pc = "done" =>
        \A j \in 1..Len(result.Records) :
            /\ NonNegative(result.Records[j].SalePrice)
            /\ NonNegative(result.Records[j].Commission)
            /\ NonNegative(result.Records[j].Remaining)

\* the value the record holds for an optional amount
OptionalOf(record, f) ==
    IF f = "commission" THEN record.Commission ELSE record.Remaining

\* C8: for commission and remaining, a cell that is empty or has no column
\* gives the value 0 with no error and no warning; a cell that is not empty
\* and is not an amount gives the value 0 and exactly one warning, which
\* carries the row number, the field and the cell as it was; neither case
\* gives an error, and the row is decoded when its required fields are valid.
C8_OptionalAmounts ==
    InLoop =>
        \A k \in 1..rowIdx : \A f \in {"commission", "remaining"} :
            LET cell == getCell(DataRow(k), result.ColumnMapping, f)
                rowWarnings == IssuesAt(result.Warnings, rowNumOf(k - 1), f)
                rowErrors == IssuesAt(result.Errors, rowNumOf(k - 1), f)
                defaulted == RowAccepted(DataRow(k)) =>
                                 /\ Len(AcceptedUpTo(k)) <= Len(result.Records)
                                 /\ OptionalOf(RecordOf(k), f) = Zero
            IN  /\ rowErrors = <<>>
                /\ cell = <<>> => rowWarnings = <<>> /\ defaulted
                /\ (cell # <<>> /\ ~parseCurrency(cell).ok) =>
                       /\ Len(rowWarnings) = 1
                       /\ rowWarnings[1].Value = cell
                       /\ defaulted

\* a result whose one record comes from a row with a commission that is not
\* an amount: the record holds 0 and there is one warning, for that cell
C8_Witness ==
    /\ pc = "done"
    /\ Len(result.Records) = 1
    /\ result.Errors = <<>>
    /\ Len(result.Warnings) = 1
    /\ result.Warnings[1].Column = "commission"
    /\ result.Warnings[1].Value = BadAmountCell
    /\ result.Records[1].Commission = Zero

\* the errors (kind "errors") or warnings of the first n data rows, as
\* parseRow raises them when the k-th data row is given the number k + offset
RECURSIVE IssuesUpTo(_, _, _)
IssuesUpTo(kind, n, offset) ==
    IF n = 0 THEN <<>>
    ELSE IssuesUpTo(kind, n - 1, offset)
         \o parseRow(DataRow(n), result.ColumnMapping, n + offset)[kind]

\* C9 as stated: the row number of every error and warning is 1-based with
\* the header row excluded, so that an issue of the k-th data row has Row = k.
C9_RowNumberExcludesHeader ==
    InLoop =>
        /\ result.Errors = IssuesUpTo("errors", rowIdx, 0)
        /\ result.Warnings = IssuesUpTo("warnings", rowIdx, 0)

\* C9: the row number of every error and warning is the 1-based number of
\* the row in the selected table with the header row counted as row 1, so
\* that an issue of the k-th data row has Row = k + 1.
C9_RowNumberCountsHeader ==
    InLoop =>
        /\ result.Errors = IssuesUpTo("errors", rowIdx, 1)
        /\ result.Warnings = IssuesUpTo("warnings", rowIdx, 1)
        /\ \A e \in 1..Len(result.Errors) : result.Errors[e].Row \in 2..(rowIdx + 1)
        /\ \A w \in 1..Len(result.Warnings) : result.Warnings[w].Row \in 2..(rowIdx + 1)

\* a result over a table whose first data row decodes and whose second data
\* row has an error and a warning, both numbered 3
C9_Witness ==
    /\ pc = "done"
    /\ Len(tableData) = 3
    /\ RowAccepted(DataRow(1))
    /\ Len(result.Errors) = 1
    /\ result.Errors[1].Row = 3
    /\ Len(result.Warnings) = 1
    /\ result.Warnings[1].Row = 3

\* the text is four digits, a dash, two digits, a dash and two digits
IsISODate(s) ==
    /\ Len(s) = 10
    /\ \A i \in {1, 2, 3, 4, 6, 7, 9, 10} : s[i] \in Digits
    /\ s[5] = "-"
    /\ s[8] = "-"

\* C10: date coercion returns the date read by the first layout, in the
\* declared order, that accepts the cell, written as YYYY-MM-DD; so every
\* date in the records has that form and a slash date that is valid
\* month-first and day-first alike (03/04/2024) is read month-first
\* (2024-03-04); a cell that no layout accepts, or an empty cell, gives one
\* error for the date and no record.
C10_DateCoercion ==
    InLoop =>
        /\ \A j \in 1..Len(result.Records) : IsISODate(result.Records[j].Date)
        /\ \A k \in 1..rowIdx :
               LET cell == getCell(DataRow(k), result.ColumnMapping, "date")
                   accepting == {i \in 1..Len(formats) : TimeParse(formats[i], cell).ok}
                   first == CHOOSE i \in accepting : \A j \in accepting : i <= j
                   dateErrors == IssuesAt(result.Errors, rowNumOf(k - 1), "date")
               IN  IF cell = <<>> \/ accepting = {}
                   THEN /\ Len(dateErrors) = 1
                        /\ ~RowAccepted(DataRow(k))
                        /\ Len(result.Records) < rowIdx
                   ELSE /\ dateErrors = <<>>
                        /\ RowAccepted(DataRow(k)) =>
                               /\ RecordOf(k).Date =
                                      FormatISO(TimeParse(formats[first], cell))
                               /\ cell = AmbiguousDateCell =>
                                      RecordOf(k).Date =
                                          <<"2","0","2","4","-","0","3","-","0","4">>

\* a result whose record comes from the cell 03/04/2024, read as 2024-03-04
C10_Witness ==
    /\ pc = "done"
    /\ Len(tableData) = 2
    /\ tableData[2][3] = AmbiguousDateCell
    /\ Len(result.Records) = 1
    /\ result.Records[1].Date = <<"2","0","2","4","-","0","3","-","0","4">>

\* the positional mode is on: the mapping is made by position
Positional == p.UsePositionalMapping /\ Len(p.PositionalColumns) > 0

\* every row of the input has a cell and has fewer cells than the positional
\* list has fields
ShortInput ==
    /\ Len(htmlData.tables) > 0
    /\ \A t \in 1..Len(htmlData.tables) :
           /\ Len(htmlData.tables[t]) > 0
           /\ \A r \in 1..Len(htmlData.tables[t]) :
                  /\ Len(htmlData.tables[t][r]) > 0
                  /\ Len(htmlData.tables[t][r]) < Len(p.PositionalColumns)

\* the positional list names every required field
NamesRequired ==
    \A i \in 1..Len(requiredColumns) :
        \E j \in 1..Len(p.PositionalColumns) : p.PositionalColumns[j] = requiredColumns[i]

RequiredEmptyMessage(f) ==
    CASE f = "store" -> "Store field is required but empty"
      [] f = "vendor" -> "Vendor field is required but empty"
      [] f = "date" -> "Date field is required but empty"
      [] f = "description" -> "Description field is required but empty"
      [] f = "sale_price" -> "Sale price field is required but empty"

\* the fields whose column is past the end of the row
PastEnd(row) ==
    {f \in DOMAIN result.ColumnMapping : result.ColumnMapping[f] >= Len(row)}

RowsOfTable(t) == Len(htmlData.tables[t])

\* C13: of several tables the one used is the table with the most rows, the
\* first such table in the order of the document; the grid, the headers, the
\* counts, the records and the issues of the result all come from that table,
\* and a parse fails for want of data rows when that table has no cell.
C13_LargestTableFirst ==
    (pc # "start" /\ htmlData.kind = "tables" /\ Len(htmlData.tables) > 1) =>
        \E i \in 1..Len(htmlData.tables) :
            /\ \A j \in 1..Len(htmlData.tables) : RowsOfTable(j) <= RowsOfTable(i)
            /\ \A j \in 1..(i - 1) : RowsOfTable(j) < RowsOfTable(i)
            /\ LET grid == SelectSeq(htmlData.tables[i], LAMBDA row : row # <<>>)
                   cells == [r \in 1..Len(grid) |->
                                [c \in 1..Len(grid[r]) |-> TrimSpace(grid[r][c])]]
               IN  /\ grid = <<>> => pc = "failed" /\ err = "no data rows found in table"
                   /\ (grid # <<>> /\ pc = "failed") =>
                          tableData = cells /\ err = "failed to map columns"
                   /\ InLoop =>
                          /\ tableData = cells
                          /\ result.Statistics.TablesFound = Len(htmlData.tables)
                          /\ result.Statistics.HeadersDetected = tableData[1]
                          /\ result.TotalRows = Len(grid) - 1
                          /\ Len(result.Records) = Len(AcceptedUpTo(rowIdx))
                          /\ result.Errors = IssuesUpTo("errors", rowIdx, 1)
                          /\ result.Warnings = IssuesUpTo("warnings", rowIdx, 1)

\* a table of one data row before a table of two data rows: the result has
\* the two records of the second table
C13_Witness ==
    /\ pc = "done"
    /\ Len(htmlData.tables) = 2
    /\ RowsOfTable(1) = 2
    /\ RowsOfTable(2) = 3
    /\ result.SuccessCount = 2
    /\ Len(result.Records) = 2
    /\ result.Records[2].Date = <<"2","0","2","4","-","0","3","-","0","4">>

Least(S) == CHOOSE x \in S : \A y \in S : x <= y

\* the mapping gives each of its fields the first header of nh that matches
\* any accepted text of the field
FirstHeaderOfAnyText(nh, mapping) ==
    \A f \in DOMAIN mapping :
        mapping[f] =
            Least(UNION {MatchingHeaders(nh, ColumnMapping(f)[v]) :
                            v \in 1..Len(ColumnMapping(f))}) - 1

\* C14 as stated: in every result, by header matching each field resolves to the first header
\* cell (the lowest column) that matches any of its accepted texts, whatever
\* the place of that text in the list of the field.
C14_FirstHeaderOfAnyText ==
    (pc = "done" /\ ~Positional) =>
        FirstHeaderOfAnyText(normalizeHeaders(tableData[1]), result.ColumnMapping)

\* the mapping gives each field the first header of nh that matches the
\* first accepted text that any header matches, and no column to a field
\* with no such text
FirstTextThenFirstHeader(nh, mapping) ==
    \A f \in Fields :
        IF ~Matched(nh, f) THEN f \notin DOMAIN mapping
        ELSE /\ f \in DOMAIN mapping
             /\ mapping[f] =
                    Least(MatchingHeaders(nh, ColumnMapping(f)[FirstMatchedText(nh, f)])) - 1

\* C14: in every result, by header matching each field resolves by the first of its accepted
\* texts, in their declared order, that some header cell matches, and to the
\* first header cell (the lowest column) that matches that text; a match is
\* one text being part of the other, letter case aside; a field none of whose
\* texts is matched has no column.
C14_FirstTextThenFirstHeader ==
    (pc = "done" /\ ~Positional) =>
        \E nh \in {normalizeHeaders(tableData[1])} :
            FirstTextThenFirstHeader(nh, result.ColumnMapping)

\* headers Item, Store, Vendor, Date, Description, Sale Price: description is
\* given the column of Description, not the column of Item before it
C14_Witness ==
    /\ pc = "done"
    /\ ~Positional
    /\ tableData[1] = HeaderItemFirst
    /\ result.ColumnMapping["description"] = 4
    /\ 1 \in MatchingHeaders(normalizeHeaders(tableData[1]), ColumnMapping("description")[2])
    /\ result.TotalRows = 1

\* the fields none of whose accepted texts a header of nh matches
Unmatched(nh) == {f \in Fields : ~Matched(nh, f)}

\* the outcome of the parse for the unmatched fields: strict mode fails for
\* any of them, the other mode for required ones only and reads the others as 0
StrictOutcome(unmatched) ==
    /\ p.StrictMode => (pc = "failed" <=> unmatched # {})
    /\ ~p.StrictMode =>
           (pc = "failed" <=> \E i \in 1..Len(requiredColumns) : requiredColumns[i] \in unmatched)
    /\ pc = "failed" => result = Nil /\ err = "failed to map columns"
    /\ pc = "done" =>
           \A f \in unmatched :
               /\ \A j \in 1..Len(result.Records) : OptionalOf(result.Records[j], f) = Zero
               /\ \A w \in 1..Len(result.Warnings) : result.Warnings[w].Column # f

\* C15: in strict mode a header row in which some field, required or
\* optional, matches none of its accepted texts makes the parse fail with no
\* result, also when the five required fields are resolved; without strict
\* mode the same header row is parsed when the required fields are resolved,
\* and the optional fields that are not matched are 0 in every record and
\* give no warning.
C15_StrictMode ==
    (pc \in {"failed", "done"} /\ ~Positional /\ Len(tableData) > 0) =>
        \E unmatched \in {Unmatched(normalizeHeaders(tableData[1]))} : StrictOutcome(unmatched)

\* strict mode and the headers of the five required fields, over a data row:
\* an error and no result
C15_Witness ==
    /\ pc = "failed"
    /\ p.StrictMode
    /\ Len(tableData) = 2
    /\ tableData[1] = HeaderRequired
    /\ Unmatched(normalizeHeaders(tableData[1])) = {"commission", "remaining"}
    /\ result = Nil

\* the header is one of the accepted texts of the field, letter case aside
IsTextOf(f, header) ==
    \E v \in 1..Len(ColumnMapping(f)) :
        ToLower(TrimSpace(header)) = ToLower(ColumnMapping(f)[v])

\* C16: a header row of five cells whose i-th cell is an accepted text of the
\* i-th required field resolves to the mapping of the headers Store, Vendor,
\* Date, Description, Sale Price: store 0, vendor 1, date 2, description 3,
\* sale_price 4 and nothing else.
C16_AliasHeadersResolveAlike ==
    (InLoop /\ ~Positional /\ Len(tableData[1]) = 5
        /\ \A i \in 1..5 : IsTextOf(requiredColumns[i], tableData[1][i])) =>
        result.ColumnMapping = createColumnMapping(p, HeaderRequired).mapping

\* the rows of the bare input that have a cell, their cells trimmed
BareCells ==
    LET rows == SelectSeq(htmlData.tables[1], LAMBDA row : row # <<>>)
    IN  [r \in 1..Len(rows) |-> [c \in 1..Len(rows[r]) |-> TrimSpace(rows[r][c])]]

C19_StatisticsOnlyAnnotate ==
    /\ [](pc = "rows" => result.Statistics.DataTypesDetected = <<>>)
    /\ [](pc = "done" => rowIdx = result.TotalRows)
    /\ [][(pc = "rows" /\ pc' = "done") =>
              /\ rowIdx = Len(tableData) - 1
              /\ tableData' = tableData
              /\ result' = [result EXCEPT !.Statistics.DataTypesDetected =
                                              result'.Statistics.DataTypesDetected]]_vars

\* a result with a record, an error and a warning whose statistics name the
\* type of the date column
C19_Witness ==
    /\ pc = "done"
    /\ Len(result.Records) = 1
    /\ Len(result.Errors) >= 1
    /\ Len(result.Warnings) >= 1
    /\ tableData[1] = HeaderFull
    /\ result.Statistics.DataTypesDetected[HeaderFull[3]] = "date"

(***************************************************************************)
(* The store: table sales_records, its summary views and the repositories. *)
(* A stored date is the day [year, month, day] that Create, CreateBatch    *)
(* and Update read from the request with the layout 2006-01-02 and hand    *)
(* to the database as a time at midnight UTC.  Amounts are whole numbers,  *)
(* for which the sums of the views are exact.  A pointer argument is the   *)
(* empty set (nil) or the set of the one value it points to.               *)
(***************************************************************************)
\* no error
NoError == <<>>

\* a CreateSalesRecordRequest
Request(store, date, salePrice, commission) ==
    [Store |-> store, Vendor |-> "Acme", Date |-> date, Description |-> "Item",
     SalePrice |-> salePrice, Commission |-> commission,
     Remaining |-> salePrice - commission]

\* the requests that are made: three that the store takes, one whose date
\* is not in the form 2006-01-02, one with a negative amount
RequestPool ==
    {Request("Downtown", <<"2","0","2","4","-","0","1","-","1","5">>, 10, 1),
     Request("Downtown", <<"2","0","2","4","-","0","1","-","2","0">>, 20, 2),
     Request("Uptown", <<"2","0","2","3","-","0","1","-","1","5">>, 40, 4),
     Request("Uptown", <<"2","0","2","4","-","1","-","5">>, 10, 1),
     Request("Uptown", <<"2","0","2","4","-","0","1","-","1","5">>, -50, 0)}

\* the batches that are made
BatchPool ==
    {<<Request("Downtown", <<"2","0","2","4","-","0","1","-","1","5">>, 10, 1), Request("Uptown", <<"2","0","2","3","-","0","1","-","1","5">>, 40, 4)>>,
     <<Request("Downtown", <<"2","0","2","4","-","0","1","-","2","0">>, 20, 2), Request("Uptown", <<"2","0","2","4","-","1","-","5">>, 10, 1)>>,
     <<Request("Downtown", <<"2","0","2","4","-","0","1","-","2","0">>, 20, 2), Request("Uptown", <<"2","0","2","4","-","0","1","-","1","5">>, -50, 0)>>,
     <<>>}

\* the UpdateSalesRecordRequests that are made: a new date, a date that is
\* not in the form 2006-01-02, a negative price, and no field at all
UpdatePool ==
    {[Date |-> {<<"2","0","2","4","-","0","2","-","1","5">>}, SalePrice |-> {}],
     [Date |-> {<<"2","0","2","4","-","1","-","5">>}, SalePrice |-> {}],
     [Date |-> {}, SalePrice |-> {-50}],
     [Date |-> {}, SalePrice |-> {}]}

\* the CHECK constraints of table sales_records
checkConstraints(row) ==
    /\ row.SalePrice >= 0
    /\ row.Commission >= 0
    /\ row.Remaining >= 0
    /\ row.Store \notin {"", " "}
    /\ row.Vendor \notin {"", " "}
    /\ row.Description \notin {"", " "}

\* the row INSERT makes of a request whose date was read as the day date
insertedRow(id, record, date) ==
    [ID |-> id, Store |-> record.Store, Vendor |-> record.Vendor,
     Date |-> [year |-> date.year, month |-> date.month, day |-> date.day],
     Description |-> record.Description, SalePrice |-> record.SalePrice,
     Commission |-> record.Commission, Remaining |-> record.Remaining]

\* the answer to a request: the operation, its arguments, the error (NoError
\* for nil) and the records returned
Response(op, args, error, records) ==
    [op |-> op, args |-> args, err |-> error, records |-> records]

\* SalesRepository.Create
Create(record) ==
    LET date == TimeParse(LayoutISO, record.Date)
        row == insertedRow(nextId, record, date)
    IN  IF ~date.ok
        THEN /\ resp' = Response("Create", <<record>>, <<"invalid date format">>, <<>>)
             /\ UNCHANGED <<salesRecords, nextId>>
        ELSE IF ~checkConstraints(row)
        THEN /\ resp' = Response("Create", <<record>>,
                                 <<"failed to insert sales record">>, <<>>)
             /\ UNCHANGED <<salesRecords, nextId>>
        ELSE /\ salesRecords' = salesRecords \cup {row}
             /\ nextId' = nextId + 1
             /\ resp' = Response("Create", <<record>>, NoError, <<row>>)

\* the transaction of CreateBatch: the rows inserted before the first
\* request that fails, and whether one failed
RECURSIVE batchRows(_, _)
batchRows(records, id) ==
    IF records = <<>> THEN [ok |-> TRUE, rows |-> <<>>]
    ELSE LET date == TimeParse(LayoutISO, Head(records).Date)
             row == insertedRow(id, Head(records), date)
             rest == batchRows(Tail(records), id + 1)
         IN  IF ~date.ok \/ ~checkConstraints(row) THEN [ok |-> FALSE, rows |-> <<>>]
             ELSE [ok |-> rest.ok, rows |-> <<row>> \o rest.rows]

\* SalesRepository.CreateBatch: all the rows, or none and an error
CreateBatch(records) ==
    LET tx == batchRows(records, nextId)
    IN  IF ~tx.ok
        THEN /\ resp' = Response("CreateBatch", <<records>>,
                                 <<"failed to insert sales record">>, <<>>)
             /\ UNCHANGED <<salesRecords, nextId>>
        ELSE /\ salesRecords' = salesRecords \cup {tx.rows[i] : i \in 1..Len(tx.rows)}
             /\ nextId' = nextId + Len(tx.rows)
             /\ resp' = Response("CreateBatch", <<records>>, NoError, tx.rows)

\* SalesRepository.Update
Update(id, updates) ==
    LET newDate == IF updates.Date = {} THEN ParseFail
                   ELSE TimeParse(LayoutISO, CHOOSE d \in updates.Date : TRUE)
        updated(row) ==
            [row EXCEPT
                !.Date = IF updates.Date = {} THEN @
                         ELSE [year |-> newDate.year, month |-> newDate.month,
                               day |-> newDate.day],
                !.SalePrice = IF updates.SalePrice = {} THEN @
                              ELSE CHOOSE x \in updates.SalePrice : TRUE]
        found == {row \in salesRecords : row.ID = id}
    IN  IF updates.Date # {} /\ ~newDate.ok
        THEN /\ resp' = Response("Update", <<id, updates>>, <<"invalid date format">>, <<>>)
             /\ UNCHANGED <<salesRecords, nextId>>
        ELSE IF \E row \in found : ~checkConstraints(updated(row))
        THEN /\ resp' = Response("Update", <<id, updates>>,
                                 <<"failed to update sales record">>, <<>>)
             /\ UNCHANGED <<salesRecords, nextId>>
        ELSE /\ salesRecords' = (salesRecords \ found) \cup {updated(row) : row \in found}
             /\ nextId' = nextId
             /\ resp' = IF found = {}
                        THEN Response("Update", <<id, updates>>,
                                      <<"sales record not found", id>>, <<>>)
                        ELSE Response("Update", <<id, updates>>, NoError,
                                      <<updated(CHOOSE row \in found : TRUE)>>)

\* SalesRepository.Delete
Delete(id) ==
    LET found == {row \in salesRecords : row.ID = id}
    IN  /\ salesRecords' = salesRecords \ found
        /\ nextId' = nextId
        /\ resp' = IF found = {}
                   THEN Response("Delete", <<id>>, <<"sales record not found", id>>, <<>>)
                   ELSE Response("Delete", <<id>>, NoError, <<>>)

\* strftime('%Y', date), strftime('%m', date) and strftime('%d', date)
strftimeY(row) == Pad4(row.Date.year)

strftimeM(row) == Pad2(row.Date.month)

strftimeD(row) == Pad2(row.Date.day)

\* the order of the date column: the stored texts of two dates compare as
\* the days do
dayOrder(date) == date.year * 10000 + date.month * 100 + date.day

dateOrder(row) == dayOrder(row.Date)

RECURSIVE Sum(_, _)
Sum(rows, field) ==
    IF rows = {} THEN 0
    ELSE LET row == CHOOSE r \in rows : TRUE
         IN  row[field] + Sum(rows \ {row}, field)

\* the rows of a set in descending order of key, a function on the set that
\* gives no two rows the same number
RECURSIVE SortDesc(_, _)
SortDesc(rows, key) ==
    IF rows = {} THEN <<>>
    ELSE LET top == CHOOSE r \in rows : \A s \in rows : key[s] <= key[r]
         IN  <<top>> \o SortDesc(rows \ {top}, key)

\* the aggregate columns of the summary views over one group of rows
aggregates(rows) ==
    [items_sold |-> Cardinality(rows),
     total_sales |-> Sum(rows, "SalePrice"),
     total_commission |-> Sum(rows, "Commission"),
     total_remaining |-> Sum(rows, "Remaining"),
     unique_stores |-> Cardinality({r.Store : r \in rows}),
     unique_vendors |-> Cardinality({r.Vendor : r \in rows})]

\* a monthly summary that groups by the month alone
monthlyGroupByMonth(row) == <<"0","0","0","0","-">> \o strftimeM(row)

\* the group of a row in v_monthly_sales_summary: strftime('%Y-%m', date)
monthlyGroup(row) == strftimeY(row) \o <<"-">> \o strftimeM(row)

\* v_yearly_sales_summary, as GetYearlySummary returns it: by year descending
GetYearlySummary ==
    LET node(row) ==
            [year |-> strftimeY(row),
             agg |-> aggregates({r \in salesRecords : strftimeY(r) = strftimeY(row)})]
        nodes == {node(row) : row \in salesRecords}
    IN  SortDesc(nodes, [n \in nodes |-> DigitsVal(n.year)])

\* v_monthly_sales_summary, as GetMonthlySummary returns it for a year, or
\* for every year when year is nil
GetMonthlySummary(year) ==
    LET node(row) ==
            [year |-> strftimeY(row), month |-> strftimeM(row),
             year_month |-> monthlyGroup(row),
             agg |-> aggregates({r \in salesRecords : monthlyGroup(r) = monthlyGroup(row)})]
        nodes == {n \in {node(row) : row \in salesRecords} : \A y \in year : n.year = y}
    IN  SortDesc(nodes, [n \in nodes |-> DigitsVal(n.year) * 100 + DigitsVal(n.month)])

\* v_daily_sales_summary, as GetDailySummary returns it, for a year and a
\* month when they are given
GetDailySummary(year, month) ==
    LET node(row) ==
            [date |-> row.Date, year |-> strftimeY(row), month |-> strftimeM(row),
             day |-> strftimeD(row), year_month |-> monthlyGroup(row),
             agg |-> aggregates({r \in salesRecords : r.Date = row.Date})]
        nodes == {n \in {node(row) : row \in salesRecords} :
                     /\ \A y \in year : n.year = y
                     /\ \A m \in month : n.month = m}
    IN  SortDesc(nodes, [n \in nodes |-> dayOrder(n.date)])

\* a drill-down that leaves the day out of its WHERE clause
drillDownWithoutDay(row, year, month, day) ==
    /\ strftimeY(row) = year
    /\ \A m \in month : strftimeM(row) = m

\* the WHERE clause of GetDrillDownData
drillDownWhere(row, year, month, day) ==
    /\ strftimeY(row) = year
    /\ \A m \in month : strftimeM(row) = m
    /\ \A d \in day : strftimeD(row) = d

\* GetDrillDownData: the rows of the WHERE clause by date descending, then by
\* id descending; no argument is examined and no error is made of one
GetDrillDownData(year, month, day) ==
    LET rows == {row \in salesRecords : drillDownWhere(row, year, month, day)}
    IN  Response("GetDrillDownData", <<year, month, day>>, NoError,
                 SortDesc(rows, [row \in rows |-> dateOrder(row) * (MaxRecords + 1) + row.ID]))

\* the groupBy values GetCustomSummary takes
validGroupBy == {"year", "month", "day", "store", "vendor"}

\* the text GetCustomSummary groups a row by
groupByClause(groupBy, row) ==
    CASE groupBy = "year" -> strftimeY(row)
      [] groupBy = "month" -> monthlyGroup(row)
      [] groupBy = "day" -> strftimeY(row) \o <<"-">> \o strftimeM(row) \o <<"-">> \o strftimeD(row)
      [] groupBy = "store" -> <<row.Store>>
      [] groupBy = "vendor" -> <<row.Vendor>>

\* GetCustomSummary, the store and vendor filters nil: an error that names
\* the groupBy it does not take, else one summary for every group
GetCustomSummary(groupBy, year) ==
    IF groupBy \notin validGroupBy
    THEN Response("GetCustomSummary", <<groupBy, year>>,
                  <<"invalid groupBy parameter: ", groupBy>>, <<>>)
    ELSE LET rows == {row \in salesRecords : \A y \in year : strftimeY(row) = y}
             periods == {groupByClause(groupBy, row) : row \in rows}
             summaries ==
                 {[period |-> period,
                   agg |-> aggregates({r \in rows : groupByClause(groupBy, r) = period})] :
                     period \in periods}
         IN  Response("GetCustomSummary", <<groupBy, year>>, NoError, summaries)

\* the drill-down keys and the groupBy values that are asked for
YearKeys == {<<"2","0","2","4">>, <<"2","4">>}

MonthKeys == {{}, {<<"0","1">>}, {<<"1","3">>}}

DayKeys == {{}, {<<"1","5">>}, {<<"3","2">>}}

CustomSummaryKeys ==
    {<<groupBy, {}>> : groupBy \in validGroupBy \cup {"week"}}
    \cup {<<"month", {<<"2","0","2","4">>}>>, <<"week", {<<"2","0","2","4">>}>>}

(***************************************************************************)
(* The requests to the store, one action for every operation.              *)
(***************************************************************************)
ParserIdle ==
    /\ p = NewHTMLTableParser
    /\ htmlData = [kind |-> "text", tables |-> <<>>]
    /\ pc = "idle"
    /\ tableData = <<>>
    /\ rowIdx = 0
    /\ result = NewParseResult
    /\ err = ""
    /\ threads = <<>>

CreateCall ==
    /\ nextId <= MaxRecords
    /\ \E record \in RequestPool : Create(record)
    /\ UNCHANGED <<parserVars, dbService, migrationVars>>

CreateBatchCall ==
    /\ \E records \in BatchPool :
           /\ nextId + Len(records) <= MaxRecords + 1
           /\ CreateBatch(records)
    /\ UNCHANGED <<parserVars, dbService, migrationVars>>

UpdateCall ==
    /\ \E id \in 1..MaxRecords, updates \in UpdatePool : Update(id, updates)
    /\ UNCHANGED <<parserVars, dbService, migrationVars>>

DeleteCall ==
    /\ \E id \in 1..MaxRecords : Delete(id)
    /\ UNCHANGED <<parserVars, dbService, migrationVars>>

GetDrillDownDataCall ==
    /\ \E year \in YearKeys, month \in MonthKeys, day \in DayKeys :
           resp' = GetDrillDownData(year, month, day)
    /\ UNCHANGED <<salesRecords, nextId>>
    /\ UNCHANGED <<parserVars, dbService, migrationVars>>

GetCustomSummaryCall ==
    /\ \E key \in CustomSummaryKeys : resp' = GetCustomSummary(key[1], key[2])
    /\ UNCHANGED <<salesRecords, nextId>>
    /\ UNCHANGED <<parserVars, dbService, migrationVars>>

InitStore == ParserIdle /\ StoreIdle

NextStore ==
    \/ CreateCall
    \/ CreateBatchCall
    \/ UpdateCall
    \/ DeleteCall
    \/ GetDrillDownDataCall
    \/ GetCustomSummaryCall

SpecStore == InitStore /\ [][NextStore]_vars

(***************************************************************************)
(* Properties of the store.                                                *)
(***************************************************************************)
\* the sum of an aggregate column over the entries of a summary
RECURSIVE SumOfNodes(_, _)
SumOfNodes(nodes, column) ==
    IF nodes = <<>> THEN 0
    ELSE Head(nodes).agg[column] + SumOfNodes(Tail(nodes), column)

\* C5: after any creations, batch creations, updates and deletions, for
\* every year the items sold, the total sales, the total commission and the
\* total remaining of the yearly summary equal the sums over the monthly
\* entries of that year, which equal the sums over the daily entries of that
\* year; and every stored record is counted in exactly one day, one month
\* and one year.
C5_SummariesAddUp ==
    LET yearly == GetYearlySummary
        monthly == GetMonthlySummary({})
        daily == GetDailySummary({}, {})
        columns == {"items_sold", "total_sales", "total_commission", "total_remaining"}
    IN  /\ \A i \in 1..Len(yearly) : \A column \in columns :
               LET months == SelectSeq(monthly, LAMBDA n : n.year = yearly[i].year)
                   days == SelectSeq(daily, LAMBDA n : n.year = yearly[i].year)
               IN  /\ yearly[i].agg[column] = SumOfNodes(months, column)
                   /\ SumOfNodes(months, column) = SumOfNodes(days, column)
                   /\ GetMonthlySummary({yearly[i].year}) = months
        /\ \A j \in 1..Len(monthly) : \E i \in 1..Len(yearly) : yearly[i].year = monthly[j].year
        /\ \A j \in 1..Len(daily) : \E i \in 1..Len(yearly) : yearly[i].year = daily[j].year
        /\ \A row \in salesRecords :
               /\ Cardinality({i \in 1..Len(yearly) :
                      DigitsVal(yearly[i].year) = row.Date.year}) = 1
               /\ Cardinality({i \in 1..Len(monthly) :
                      /\ DigitsVal(monthly[i].year) = row.Date.year
                      /\ DigitsVal(monthly[i].month) = row.Date.month}) = 1
               /\ Cardinality({i \in 1..Len(daily) : daily[i].date = row.Date}) = 1
        /\ SumOfNodes(yearly, "items_sold") = Cardinality(salesRecords)
        /\ SumOfNodes(monthly, "items_sold") = Cardinality(salesRecords)
        /\ SumOfNodes(daily, "items_sold") = Cardinality(salesRecords)

\* a store that an update has just moved a record to another month in: one
\* year of two records, in two months
C5_Witness ==
    /\ resp.op = "Update"
    /\ resp.err = NoError
    /\ Cardinality(salesRecords) = 2
    /\ Len(GetYearlySummary) = 1
    /\ GetYearlySummary[1].agg.items_sold = 2
    /\ GetYearlySummary[1].agg.total_sales = 30
    /\ Len(GetMonthlySummary({})) = 2

\* the key is a year of four digits, a month 01..12, a day 01..31
ValidYear(year) == Len(year) = 4 /\ AllDigits(year)

ValidMonth(month) ==
    \A m \in month : Len(m) = 2 /\ AllDigits(m) /\ DigitsVal(m) \in 1..12

ValidDay(day) ==
    \A d \in day : Len(d) = 2 /\ AllDigits(d) /\ DigitsVal(d) \in 1..31

\* the record belongs to the period: the year, the month of the year when a
\* month is given, the day when a month and a day are given
InPeriod(row, year, month, day) ==
    /\ row.Date.year = DigitsVal(year)
    /\ \A m \in month : row.Date.month = DigitsVal(m)
    /\ \A d \in day : row.Date.day = DigitsVal(d)

\* the items sold that the summary of the period shows: of its year, month
\* or day node, 0 when there is none
ItemsSoldOfPeriod(year, month, day) ==
    IF day # {}
    THEN SumOfNodes(SelectSeq(GetDailySummary({year}, month),
                              LAMBDA n : \A d \in day : n.day = d), "items_sold")
    ELSE IF month # {}
    THEN SumOfNodes(SelectSeq(GetMonthlySummary({year}),
                              LAMBDA n : \A m \in month : n.month = m), "items_sold")
    ELSE SumOfNodes(SelectSeq(GetYearlySummary, LAMBDA n : n.year = year), "items_sold")

\* C6: GetDrillDownData for a year, a year and a month, or a year, a month
\* and a day returns exactly the stored records of that period, none from
\* outside it and none of it missing, as many as the items sold of the
\* summary node of the period, by date descending and among equal dates by
\* id descending.
C6_DrillDownIsThePeriod ==
    (/\ resp.op = "GetDrillDownData"
     /\ ValidYear(resp.args[1])
     /\ ValidMonth(resp.args[2])
     /\ ValidDay(resp.args[3])
     /\ resp.args[3] # {} => resp.args[2] # {})
    =>
        LET year == resp.args[1]
            month == resp.args[2]
            day == resp.args[3]
            records == resp.records
            members == {row \in salesRecords : InPeriod(row, year, month, day)}
        IN  /\ resp.err = NoError
            /\ {records[i] : i \in 1..Len(records)} = members
            /\ Len(records) = Cardinality(members)
            /\ Len(records) = ItemsSoldOfPeriod(year, month, day)
            /\ \A i \in 1..Len(records) : \A j \in (i + 1)..Len(records) :
                   \/ dateOrder(records[i]) > dateOrder(records[j])
                   \/ /\ records[i].Date = records[j].Date
                      /\ records[i].ID > records[j].ID

\* the drill-down into January 2024 of a store with a record of the 15th
\* inserted after a record of the 20th: the two records, the later date first
C6_Witness ==
    /\ resp.op = "GetDrillDownData"
    /\ resp.args = <<<<"2","0","2","4">>, {<<"0","1">>}, {}>>
    /\ Len(resp.records) = 2
    /\ resp.records[1].Date.day = 20
    /\ resp.records[2].Date.day = 15
    /\ resp.records[1].ID < resp.records[2].ID

\* C7: a drill-down with a year that is not four digits, a month outside
\* 01..12 or a day outside 01..31, and a custom summary with a groupBy that
\* is not year, month, day, store or vendor, return an error that names the
\* parameter, and no list of records.
C7_InvalidKeyIsAnError ==
    /\ (/\ resp.op = "GetDrillDownData"
        /\ \/ ~ValidYear(resp.args[1])
           \/ ~ValidMonth(resp.args[2])
           \/ ~ValidDay(resp.args[3]))
       => resp.err # NoError
    /\ (/\ resp.op = "GetCustomSummary"
        /\ resp.args[1] \notin {"year", "month", "day", "store", "vendor"})
       => resp.err = <<"invalid groupBy parameter: ", resp.args[1]>>

(***************************************************************************)
(* The App: the import operations on the parser and the database service   *)
(***************************************************************************)
\* the CHECK constraints of table sales_records on a row made of a parsed
\* record: the amounts are floats (a NaN is bound as NULL) and TRIM takes
\* the spaces off
recordConstraints(row) ==
    /\ NonNegative(row.SalePrice)
    /\ NonNegative(row.Commission)
    /\ NonNegative(row.Remaining)
    /\ TrimSet(row.Store, {" "}) # <<>>
    /\ TrimSet(row.Vendor, {" "}) # <<>>
    /\ TrimSet(row.Description, {" "}) # <<>>

\* the database as a value: its rows and the id of the next insert
Store(rows, id) == [rows |-> rows, nextId |-> id]

\* Service.CreateSalesRecord of a parsed record: the database after it, the
\* row saved and the error
createSalesRecord(st, record, date) ==
    IF ~date.ok
    THEN [st |-> st, err |-> <<"invalid date format">>, saved |-> <<>>]
    ELSE IF ~recordConstraints(insertedRow(st.nextId, record, date))
    THEN [st |-> st, err |-> <<"failed to insert sales record">>, saved |-> <<>>]
    ELSE [st |-> Store(st.rows \cup {insertedRow(st.nextId, record, date)}, st.nextId + 1),
          err |-> NoError,
          saved |-> <<insertedRow(st.nextId, record, date)>>]

\* an ImportError
ImportError(record, error) == [Record |-> record, Error |-> error]

\* Service.CreateSalesRecord of the first of the parsed records
createFirst(st, records) ==
    createSalesRecord(st, Head(records), TimeParse(LayoutISO, Head(records).Date))

\* the loop of ImportHTMLData over the parsed records, one being the return
\* of CreateSalesRecord for the first of them: a record that is not saved is
\* noted and the loop goes on
RECURSIVE importEach(_, _, _, _), importNext(_, _, _, _, _)
importNext(one, st, records, imported, errors) ==
    IF one.err # NoError
    THEN importEach(st, Tail(records), imported,
                    Append(errors, ImportError(Head(records), one.err)))
    ELSE importEach(one.st, Tail(records), imported \o one.saved, errors)

importEach(st, records, imported, errors) ==
    IF records = <<>>
    THEN [st |-> st, imported |-> imported, errors |-> errors]
    ELSE importNext(createFirst(st, records), st, records, imported, errors)

\* the transaction of Service.CreateSalesRecordsBatch over parsed records,
\* begun on the database st0: it stops at the first record that is not saved
\* and the database is as it was
RECURSIVE batchEach(_, _, _, _), batchNext(_, _, _, _)
batchNextKeepsPrefix(one, st0, records, imported) ==
    IF one.err # NoError
    THEN [st |-> one.st, err |-> one.err, saved |-> <<>>]
    ELSE batchEach(st0, one.st, Tail(records), imported \o one.saved)

batchNext(one, st0, records, imported) ==
    IF one.err # NoError
    THEN [st |-> st0, err |-> one.err, saved |-> <<>>]
    ELSE batchEach(st0, one.st, Tail(records), imported \o one.saved)

batchEach(st0, st, records, imported) ==
    IF records = <<>>
    THEN [st |-> st, err |-> NoError, saved |-> imported]
    ELSE batchNext(createFirst(st, records), st0, records, imported)

\* Service.CreateSalesRecordsBatch: every record saved, or the database as
\* it was and an error
createSalesRecordsBatch(st, records) == batchEach(st, st, records, <<>>)

\* an ImportResult with the zero value in every field
NewImportResult ==
    [Success |-> FALSE, TotalRows |-> 0, ParsedRows |-> 0, ImportedRows |-> 0,
     ParseErrors |-> <<>>, ImportErrors |-> <<>>, ImportedRecords |-> <<>>,
     ColumnMapping |-> <<>>, DataTypesDetected |-> <<>>, ErrorMessage |-> <<>>]

\* an import that forgets the message of the parser
parseFailureSilent(message) == NewImportResult

\* the result of an import whose input the parser returned an error for
parseFailure(message) ==
    [NewImportResult EXCEPT !.ErrorMessage = <<"Failed to parse HTML data: ", message>>]

\* what an import operation returns: the database after it, the error and
\* the result (Nil for a nil pointer)
Answer(st, error, res) == [st |-> st, err |-> error, result |-> res]

\* the result ImportHTMLData prepares after its loop
eachResult(parsed, done) ==
    [NewImportResult EXCEPT
        !.Success = Len(done.imported) > 0,
        !.TotalRows = parsed.TotalRows,
        !.ParsedRows = parsed.SuccessCount,
        !.ImportedRows = Len(done.imported),
        !.ParseErrors = parsed.Errors,
        !.ImportErrors = done.errors,
        !.ImportedRecords = done.imported,
        !.ColumnMapping = parsed.ColumnMapping,
        !.DataTypesDetected = parsed.Statistics.DataTypesDetected,
        !.ErrorMessage = IF Len(done.errors) > 0
                         THEN <<"Imported ", Len(done.imported), " of ", parsed.SuccessCount,
                                " records. ", Len(done.errors), " records failed to import.">>
                         ELSE <<>>]

\* the result ImportHTMLDataBatch prepares after the transaction
batchResult(parsed, tx) ==
    IF tx.err # NoError
    THEN [NewImportResult EXCEPT
             !.ErrorMessage = <<"Failed to import records: ", tx.err>>,
             !.TotalRows = parsed.TotalRows,
             !.ParsedRows = parsed.SuccessCount,
             !.ParseErrors = parsed.Errors]
    ELSE [NewImportResult EXCEPT
             !.Success = TRUE,
             !.TotalRows = parsed.TotalRows,
             !.ParsedRows = parsed.SuccessCount,
             !.ImportedRows = Len(tx.saved),
             !.ImportedRecords = tx.saved,
             !.ColumnMapping = parsed.ColumnMapping,
             !.DataTypesDetected = parsed.Statistics.DataTypesDetected]

\* what ImportHTMLData returns after its loop
eachAnswer(parsed, done) == Answer(done.st, NoError, eachResult(parsed, done))

\* what ImportHTMLDataBatch returns after the transaction
batchAnswer(parsed, tx) == Answer(tx.st, NoError, batchResult(parsed, tx))

\* ImportHTMLData from the return of the parser on
importParsed(st, call) ==
    IF call.pc = "failed" THEN Answer(st, NoError, parseFailure(call.err))
    ELSE eachAnswer(call.result, importEach(st, call.result.Records, <<>>, <<>>))

\* ImportHTMLDataBatch from the return of the parser on
batchParsed(st, call) ==
    IF call.pc = "failed" THEN Answer(st, NoError, parseFailure(call.err))
    ELSE batchAnswer(call.result, createSalesRecordsBatch(st, call.result.Records))

\* the inputs that are imported: a table of two good rows, of a good row and a
\* row with a negative price, of a row without a store after a good row and
\* alone, a table with no price column, text with no table, and a bare row
ImportInputs ==
    {Table(HeaderFull, <<GoodRow, RowWith(3, AmbiguousDateCell)>>),
     Table(HeaderFull, <<GoodRow, RowWith(1, EmptyCell)>>),
     Table(HeaderFull, <<RowWith(1, EmptyCell)>>),
     Table(HeaderFull, <<GoodRow, RowWith(5, NegativeCell)>>),
     Table(HeaderNoPrice, <<GoodRow>>),
     [kind |-> "text", tables |-> <<>>],
     BareRows(<<GoodRow>>)}

\* App.ImportHTMLData on the parser q, the database service there or not
ImportHTMLData(service, q, st, html) ==
    IF ~service THEN Answer(st, <<"database service not initialized">>, Nil)
    ELSE CHOOSE answer \in {importParsed(st, call) : call \in {runCall(q, NewCall(q, html))}} : TRUE

\* App.ImportHTMLDataBatch
ImportHTMLDataBatch(service, q, st, html) ==
    IF ~service THEN Answer(st, <<"database service not initialized">>, Nil)
    ELSE CHOOSE answer \in {batchParsed(st, call) : call \in {runCall(q, NewCall(q, html))}} : TRUE

\* ImportOptions
ImportOptions(consignable, custom, strict, batch) ==
    [UseConsignableFormat |-> consignable, CustomColumnMapping |-> custom,
     StrictMode |-> strict, UseBatchImport |-> batch]

\* the parser as ImportHTMLDataWithOptions configures it: a mapping that the
\* options name replaces the one the parser has, and strict mode is set to
\* what the options say
configureParser(q, options) ==
    [(IF options.UseConsignableFormat THEN SetConsignableMapping(q)
      ELSE IF Len(options.CustomColumnMapping) > 0
      THEN SetPositionalMapping(q, options.CustomColumnMapping)
      ELSE q) EXCEPT !.StrictMode = options.StrictMode]

\* App.ImportHTMLDataWithOptions
ImportHTMLDataWithOptions(service, q, st, html, options) ==
    IF ~service THEN Answer(st, <<"database service not initialized">>, Nil)
    ELSE IF options.UseBatchImport
    THEN ImportHTMLDataBatch(service, configureParser(q, options), st, html)
    ELSE ImportHTMLData(service, configureParser(q, options), st, html)

\* a ValidationResult with the zero value in every field
NewValidationResult ==
    [Valid |-> FALSE, TotalRows |-> 0, ValidRows |-> 0, InvalidRows |-> 0,
     ErrorMessage |-> <<>>, Errors |-> <<>>, Warnings |-> <<>>,
     ColumnMapping |-> <<>>, DataTypesDetected |-> <<>>]

\* ValidateHTMLData from the return of the parser on
validateParsed(call) ==
    IF call.pc = "failed"
    THEN [NewValidationResult EXCEPT
             !.ErrorMessage = <<"Failed to parse HTML data: ", call.err>>]
    ELSE [NewValidationResult EXCEPT
             !.Valid = call.result.SuccessCount > 0,
             !.TotalRows = call.result.TotalRows,
             !.ValidRows = call.result.SuccessCount,
             !.InvalidRows = call.result.ErrorCount,
             !.Errors = call.result.Errors,
             !.Warnings = call.result.Warnings,
             !.ColumnMapping = call.result.ColumnMapping,
             !.DataTypesDetected = call.result.Statistics.DataTypesDetected]

\* App.ValidateHTMLData on the parser q
ValidateHTMLData(q, html) ==
    CHOOSE validation \in {validateParsed(call) : call \in {runCall(q, NewCall(q, html))}} : TRUE

\* the answer of the App to a call of an import operation
ImportResponse(op, args, answer) ==
    [op |-> op, args |-> args, err |-> answer.err, result |-> answer.result]

\* the options that are given
OptionsPool ==
    {ImportOptions(FALSE, <<>>, FALSE, FALSE),
     ImportOptions(FALSE, <<>>, TRUE, TRUE),
     ImportOptions(TRUE, <<>>, FALSE, TRUE),
     ImportOptions(FALSE, <<"store", "vendor", "date", "description">>, FALSE, FALSE)}

\* NewApp: a parser with the defaults and no database service
InitApp ==
    /\ ParserIdle
    /\ salesRecords = {}
    /\ nextId = 1
    /\ resp = NoResponse
    /\ dbService = FALSE
    /\ MigrateIdle

\* App.startup: the database service is there after it, unless the database
\* could not be opened
Startup ==
    /\ ~dbService
    /\ dbService' \in BOOLEAN
    /\ UNCHANGED <<parserVars, salesRecords, nextId, resp, migrationVars>>

\* the import operation leaves its answer and the database it made
Answered(op, args, answer) ==
    /\ resp' = ImportResponse(op, args, answer)
    /\ salesRecords' = answer.st.rows
    /\ nextId' = answer.st.nextId

ImportHTMLDataCall ==
    \E html \in ImportInputs :
        /\ nextId <= MaxRecords
        /\ \E answer \in {ImportHTMLData(dbService, p, Store(salesRecords, nextId), html)} :
               Answered("ImportHTMLData", <<html>>, answer)
        /\ UNCHANGED <<parserVars, dbService, migrationVars>>

ImportHTMLDataBatchCall ==
    \E html \in ImportInputs :
        /\ nextId <= MaxRecords
        /\ \E answer \in {ImportHTMLDataBatch(dbService, p, Store(salesRecords, nextId), html)} :
               Answered("ImportHTMLDataBatch", <<html>>, answer)
        /\ UNCHANGED <<parserVars, dbService, migrationVars>>

ImportHTMLDataWithOptionsCall ==
    \E html \in ImportInputs, options \in OptionsPool :
        /\ nextId <= MaxRecords
        /\ \E answer \in {ImportHTMLDataWithOptions(dbService, p, Store(salesRecords, nextId),
                                                    html, options)} :
               Answered("ImportHTMLDataWithOptions", <<html, options>>, answer)
        /\ p' = IF dbService THEN configureParser(p, options) ELSE p
        /\ UNCHANGED <<htmlData, pc, tableData, rowIdx, result, err, threads, dbService,
                       migrationVars>>

ValidateHTMLDataCall ==
    \E html \in ImportInputs :
        /\ resp' = [op |-> "ValidateHTMLData", args |-> <<html>>, err |-> NoError,
                    result |-> ValidateHTMLData(p, html)]
        /\ UNCHANGED <<parserVars, salesRecords, nextId, dbService, migrationVars>>

NextApp ==
    \/ Startup
    \/ ValidateHTMLDataCall
    \/ ImportHTMLDataCall
    \/ ImportHTMLDataBatchCall
    \/ ImportHTMLDataWithOptionsCall

SpecApp == InitApp /\ [][NextApp]_vars

\* the import operations of the App
ImportOps == {"ImportHTMLData", "ImportHTMLDataBatch", "ImportHTMLDataWithOptions"}

\* the parser q returns an error for the input
FailsStructurally(q, html) == runCall(q, NewCall(q, html)).pc = "failed"

\* C20: an import operation called when the database service is not
\* initialised returns an error and a nil result and leaves the parser and the
\* store as they were; called with the service initialised on an input the
\* parser returns an error for, it returns a nil error and a result with
\* Success false and a message, and the store holds the records it held.
C20_ImportFailures ==
    [][(resp'.op \in ImportOps /\ dbService' = dbService) =>
          /\ ~dbService =>
                 /\ resp'.err # NoError
                 /\ resp'.result = Nil
                 /\ p' = p
                 /\ salesRecords' = salesRecords
          /\ (dbService /\ FailsStructurally(p', resp'.args[1])) =>
                 /\ resp'.err = NoError
                 /\ resp'.result # Nil
                 /\ resp'.result.Success = FALSE
                 /\ resp'.result.ErrorMessage # <<>>
                 /\ salesRecords' = salesRecords
                 /\ nextId' = nextId]_vars

\* an import on a store that holds records, of an input the parser returned
\* an error for: the result carries the message and the records are there
C20_Witness ==
    /\ dbService
    /\ resp.op \in ImportOps
    /\ resp.err = NoError
    /\ resp.result # Nil
    /\ resp.result.Success = FALSE
    /\ resp.result.ErrorMessage # <<>>
    /\ resp.result.ErrorMessage[1] = "Failed to parse HTML data: "
    /\ salesRecords # {}

\* the set of the elements of a sequence
Range(s) == {s[i] : i \in 1..Len(s)}

\* the step is a return of the batch import on an initialised App
BatchReturn ==
    /\ dbService /\ dbService'
    /\ \/ resp'.op = "ImportHTMLDataBatch"
       \/ resp'.op = "ImportHTMLDataWithOptions" /\ resp'.args[2].UseBatchImport

MaxVersion == 4

\* a Migration; what its SQL does is told by its version
Migration(version) == [Version |-> version, Name |-> "schema"]

\* loadMigrations: the migrations of the files, sorted by version
RECURSIVE loadMigrations(_)
loadMigrations(versions) ==
    IF versions = {} THEN <<>>
    ELSE LET least == CHOOSE v \in versions : \A w \in versions : v <= w
         IN  <<Migration(least)>> \o loadMigrations(versions \ {least})

\* getAppliedMigrations: the versions in table migrations
getAppliedMigrations(db) == {r.Version : r \in db.recorded}

\* filterPendingMigrations
filterPendingMigrations(migrations, applied) ==
    SelectSeq(migrations, LAMBDA migration : migration.Version \notin applied)

\* a transaction that does not undo what was done before the error
ExecTxWithoutRollback(before, after, error) == [db |-> after, err |-> error]

\* DB.ExecTx: the database after a transaction that took it from before to
\* after and ended with the error: rolled back on an error, committed else
ExecTx(before, after, error) ==
    IF error # <<>> THEN [db |-> before, err |-> error]
    ELSE [db |-> after, err |-> error]

\* the function applyMigration runs in its transaction: the SQL of the
\* migration, which fails part of the way when sqlOk is false, then the
\* INSERT into migrations, which fails when the version is there
migrationTx(db, migration, sqlOk) ==
    IF ~sqlOk
    THEN [db |-> [db EXCEPT !.partial = @ \cup {migration.Version}],
          err |-> <<"failed to execute migration SQL">>]
    ELSE IF migration.Version \in getAppliedMigrations(db)
    THEN [db |-> [db EXCEPT !.effects = Append(@, migration.Version)],
          err |-> <<"failed to record migration">>]
    ELSE [db |-> [db EXCEPT !.effects = Append(@, migration.Version),
                            !.recorded = @ \cup {migration}],
          err |-> <<>>]

\* DB.applyMigration
applyMigration(db, tx) == ExecTx(db, tx.db, tx.err)

\* the builds: the versions of their migration files
Builds == (SUBSET (1..MaxVersion)) \ {{}}

InitMigrate ==
    /\ ParserIdle
    /\ salesRecords = {}
    /\ nextId = 1
    /\ resp = NoResponse
    /\ dbService = FALSE
    /\ schema = NewSchema
    /\ \E versions \in Builds : migrate = NoMigrate(loadMigrations(versions))

\* Migrate up to its loop: the table is created if it is not there, the
\* pending migrations are filtered, and with none pending the call returns
MigrateBegin ==
    /\ migrate.pc \in {"idle", "returned"}
    /\ schema' = [schema EXCEPT !.table = TRUE]
    /\ \E pending \in {filterPendingMigrations(migrate.available,
                                                getAppliedMigrations(schema))} :
           migrate' = [migrate EXCEPT !.pending = pending,
                                      !.attempted = <<>>,
                                      !.err = <<>>,
                                      !.pc = IF pending = <<>> THEN "returned" ELSE "apply"]
    /\ UNCHANGED <<parserVars, salesRecords, nextId, resp, dbService>>

\* one turn of the loop of Migrate: the migration is applied, and an error
\* ends the call
MigrateApply ==
    /\ migrate.pc = "apply"
    /\ \E sqlOk \in BOOLEAN :
       \E done \in {applyMigration(schema, migrationTx(schema, Head(migrate.pending), sqlOk))} :
           /\ schema' = done.db
           /\ migrate' =
                  IF done.err # <<>>
                  THEN [migrate EXCEPT
                           !.attempted = Append(@, Head(migrate.pending).Version),
                           !.err = <<"failed to apply migration",
                                     Head(migrate.pending).Version, done.err>>,
                           !.pc = "returned"]
                  ELSE [migrate EXCEPT
                           !.attempted = Append(@, Head(migrate.pending).Version),
                           !.pending = Tail(@),
                           !.pc = IF Tail(migrate.pending) = <<>> THEN "returned"
                                  ELSE "apply"]
    /\ UNCHANGED <<parserVars, salesRecords, nextId, resp, dbService>>

NextMigrate ==
    \/ MigrateBegin
    \/ MigrateApply

SpecMigrate == InitMigrate /\ [][NextMigrate]_vars

\* the versions of the migrations of the build
AvailableVersions == {migrate.available[i].Version : i \in 1..Len(migrate.available)}

\* how many times the SQL of the version took effect
EffectsOf(version) == Cardinality({i \in 1..Len(schema.effects) : schema.effects[i] = version})

\* the version is recorded exactly when its SQL took effect, and that once;
\* no SQL took effect in part
RecordedIffInEffect ==
    /\ schema.partial = {}
    /\ \A v \in 1..MaxVersion :
           /\ EffectsOf(v) <= 1
           /\ v \in getAppliedMigrations(schema) <=> EffectsOf(v) = 1

\* the versions attempted in a call ascend, and after a call that failed at
\* version k, k and every version above it are not applied
AscendingUntilFailure ==
    /\ \A i \in 1..Len(migrate.attempted), j \in 1..Len(migrate.attempted) :
           i < j => migrate.attempted[i] < migrate.attempted[j]
    /\ (migrate.pc = "returned" /\ migrate.err # <<>>) =>
           \A v \in AvailableVersions :
               v >= migrate.attempted[Len(migrate.attempted)] =>
                   v \notin getAppliedMigrations(schema) /\ EffectsOf(v) = 0

\* a migration is attempted when every lower version of the build is
\* applied, and a call with no pending migration changes nothing
LowestPendingFirst ==
    /\ Len(migrate'.attempted) > Len(migrate.attempted) =>
           \A v \in AvailableVersions :
               v < migrate'.attempted[Len(migrate'.attempted)] =>
                   v \in getAppliedMigrations(schema)
    /\ (migrate.pc \in {"idle", "returned"} /\ migrate'.pc = "returned") =>
           /\ schema' = schema
           /\ migrate'.err = <<>>
           /\ migrate'.attempted = <<>>

\* C22: over any sequence of Migrate calls, with SQL that fails in some:
\* migrations are attempted in ascending version order, a version is in
\* table migrations exactly when its SQL took effect, no version takes
\* effect twice, a failure at version k ends the call with every version
\* above k not applied, and a call with nothing pending changes nothing.
C22_MigrationsInOrderAndAtomic ==
    /\ [](RecordedIffInEffect /\ AscendingUntilFailure)
    /\ [][LowestPendingFirst]_vars

\* a call on a build of versions 1, 2 and 3 that applied 1 and failed at 2:
\* 1 is recorded and in effect, 2 and 3 are not
C22_Witness ==
    /\ AvailableVersions = {1, 2, 3}
    /\ migrate.pc = "returned"
    /\ migrate.err # <<>>
    /\ migrate.attempted = <<1, 2>>
    /\ getAppliedMigrations(schema) = {1}
    /\ schema.effects = <<1>>

(***************************************************************************)
(* Column type detection on its own: the statistics of a column            *)
(***************************************************************************)
\* the most data rows of the column
MaxSample == 4

\* the values of the column: a date, a currency amount, a number, an amount
\* that is a number too, a word and a blank
SampleValues ==
    {<<"1","/","2","/","2","0","2","4">>,
     <<"$","5">>,
     <<"7">>,
     <<"1",".","5","0">>,
     <<"x">>,
     <<" ">>}

\* the grid of one column under the header Date
ColumnGrid(values) == <<<<<<"D","a","t","e">>>>>> \o [i \in 1..Len(values) |-> <<values[i]>>]

\* a column of up to MaxSample values, before its statistics are calculated
InitDetect ==
    /\ p = NewHTMLTableParser
    /\ htmlData = [kind |-> "text", tables |-> <<>>]
    /\ pc = "rows"
    /\ \E values \in SeqsUpTo(SampleValues, MaxSample) : tableData = ColumnGrid(values)
    /\ rowIdx = Len(tableData) - 1
    /\ result = NewParseResult
    /\ err = ""
    /\ threads = <<>>
    /\ StoreIdle

\* calculateStatistics on the grid
CalculateStatistics ==
    /\ pc = "rows"
    /\ result' = withStatistics(result, tableData)
    /\ pc' = "done"
    /\ UNCHANGED <<p, htmlData, tableData, rowIdx, err, threads, storeVars>>

NextDetect == CalculateStatistics

SpecDetect == InitDetect /\ [][NextDetect]_vars

\* the values of the column that are sampled
Sampled ==
    [i \in 1..(IF Len(tableData) - 1 < SampleRows THEN Len(tableData) - 1 ELSE SampleRows) |->
        TrimSpace(tableData[i + 1][1])]

\* the number of sampled values of the kind
Votes(Kind(_)) == Cardinality({i \in 1..Len(Sampled) : Sampled[i] # <<>> /\ Kind(Sampled[i])})

IsNumber(value) == ParseFloat(RemoveChars(value, {","})).ok

\* C23: the type detected for a column with n sampled values, blanks counted
\* in n, is date when more than half of them look like dates, else currency
\* when more than half look like currency, else number when more than half
\* are numbers, else text; half is not enough, so a sample split evenly
\* between dates and amounts is text.
C23_StrictMajority ==
    (pc = "done" /\ Len(tableData) > 1) =>
        result.Statistics.DataTypesDetected[tableData[1][1]] =
            IF 2 * Votes(looksLikeDate) > Len(Sampled) THEN "date"
            ELSE IF 2 * Votes(looksLikeCurrency) > Len(Sampled) THEN "currency"
            ELSE IF 2 * Votes(IsNumber) > Len(Sampled) THEN "number"
            ELSE "text"

\* a column of a date and an amount: text
C23_Witness ==
    /\ pc = "done"
    /\ tableData = ColumnGrid(<< <<"1","/","2","/","2","0","2","4">>, <<"$","5">> >>)
    /\ result.Statistics.DataTypesDetected[tableData[1][1]] = "text"

\* the parser configuration that the arguments of a call of the App name:
\* the mapping and strict mode of the options, header matching with no
\* option of a mapping, and header matching without strict mode for a call
\* that has no options
ConfigurationOf(op, args) ==
    IF op = "ImportHTMLDataWithOptions" THEN configureParser(NewHTMLTableParser, args[2])
    ELSE NewHTMLTableParser

\* what the App answers to the call on the parser q and the database st
AnswerOn(q, st, op, args) ==
    IF op = "ValidateHTMLData" THEN ValidateHTMLData(q, args[1])
    ELSE IF op = "ImportHTMLDataBatch" \/ (op = "ImportHTMLDataWithOptions" /\ args[2].UseBatchImport)
    THEN ImportHTMLDataBatch(TRUE, q, st, args[1]).result
    ELSE ImportHTMLData(TRUE, q, st, args[1]).result

\* C24: on an initialised App, whatever calls came before, a call parses
\* with the parser configuration of its own arguments: the parser it used is
\* that configuration, and its answer is the answer on that configuration.
C24_ConfigurationFromArguments ==
    [][(dbService /\ dbService' /\ resp'.op \in ImportOps \cup {"ValidateHTMLData"}) =>
          /\ p' = ConfigurationOf(resp'.op, resp'.args)
          /\ resp'.result = AnswerOn(ConfigurationOf(resp'.op, resp'.args),
                                     Store(salesRecords, nextId), resp'.op, resp'.args)]_vars

(***************************************************************************)
(* Calls of ImportHTMLDataWithOptions at once on one App.  The App has one *)
(* parser, and every call assigns its fields before it parses.  A step of  *)
(* a call is one statement of ImportHTMLDataWithOptions and of the setter  *)
(* it calls, one step of ParseHTML, or the saving of the parsed records.   *)
(***************************************************************************)
\* a call of ImportHTMLDataWithOptions before its first statement
OptionsCall(html, options) ==
    NewCall(NewHTMLTableParser, html) @@
    [options |-> options, phase |-> "called", answer |-> Answer(Nil, NoError, Nil)]

\* the columns that the options name, none for header matching
columnsOf(options) ==
    IF options.UseConsignableFormat THEN SetConsignableMapping(NewHTMLTableParser).PositionalColumns
    ELSE options.CustomColumnMapping

\* the inputs of the calls: a bare row and a table with headers
OptionsInputs == {BareRows(<<GoodRow>>), Table(HeaderFull, <<GoodRow>>)}

\* the options of the calls; each names a mapping and strict mode
ConcurrentOptions ==
    {ImportOptions(TRUE, <<>>, FALSE, FALSE),
     ImportOptions(TRUE, <<>>, TRUE, TRUE),
     ImportOptions(FALSE, <<"store", "vendor", "date", "description">>, FALSE, FALSE)}

InitOptions ==
    /\ p = NewHTMLTableParser
    /\ \E inputs \in [1..MaxCalls -> OptionsInputs], options \in [1..MaxCalls -> ConcurrentOptions] :
           threads = [t \in 1..MaxCalls |-> OptionsCall(inputs[t], options[t])]
    /\ htmlData = [kind |-> "text", tables |-> <<>>]
    /\ pc = "idle"
    /\ tableData = <<>>
    /\ rowIdx = 0
    /\ result = NewParseResult
    /\ err = ""
    /\ salesRecords = {}
    /\ nextId = 1
    /\ resp = NoResponse
    /\ dbService = FALSE
    /\ MigrateIdle

\* the call t goes to the phase next, the parser becomes q
Advance(t, next, q) ==
    /\ threads' = [threads EXCEPT ![t].phase = next]
    /\ p' = q
    /\ UNCHANGED <<htmlData, pc, tableData, rowIdx, result, err, storeVars>>

\* the test of the database service: with none the call returns an error
OptionsBegin ==
    \E t \in 1..MaxCalls :
        /\ threads[t].phase = "called"
        /\ IF dbService
           THEN Advance(t, IF Len(columnsOf(threads[t].options)) > 0 THEN "mapping" ELSE "strict", p)
           ELSE /\ threads' = [threads EXCEPT
                                  ![t].phase = "returned",
                                  ![t].answer = Answer(Nil, <<"database service not initialized">>, Nil)]
                /\ UNCHANGED <<p, htmlData, pc, tableData, rowIdx, result, err, storeVars>>

\* SetPositionalMapping, first statement
OptionsUsePositional ==
    \E t \in 1..MaxCalls :
        /\ threads[t].phase = "mapping"
        /\ Advance(t, "columns", [p EXCEPT !.UsePositionalMapping = TRUE])

\* SetPositionalMapping, second statement
OptionsColumns ==
    \E t \in 1..MaxCalls :
        /\ threads[t].phase = "columns"
        /\ Advance(t, "strict", [p EXCEPT !.PositionalColumns = columnsOf(threads[t].options)])

\* a.parser.StrictMode = options.StrictMode
OptionsStrictMode ==
    \E t \in 1..MaxCalls :
        /\ threads[t].phase = "strict"
        /\ Advance(t, "parse", [p EXCEPT !.StrictMode = threads[t].options.StrictMode])

\* a step of ParseHTML in the call, on the parser as it is now
OptionsParse ==
    \E t \in 1..MaxCalls :
        /\ threads[t].phase = "parse"
        /\ threads[t].pc \notin {"done", "failed"}
        /\ threads' = [threads EXCEPT ![t] = stepCall(p, threads[t])]
        /\ UNCHANGED <<p, htmlData, pc, tableData, rowIdx, result, err, storeVars>>

\* what the call answers from the return of its ParseHTML
optionsAnswer(st, call) ==
    IF call.options.UseBatchImport THEN batchParsed(st, call) ELSE importParsed(st, call)

\* the parsed records are saved and the call returns its result
OptionsImport ==
    \E t \in 1..MaxCalls :
        /\ threads[t].phase = "parse"
        /\ threads[t].pc \in {"done", "failed"}
        /\ \E answer \in {optionsAnswer(Store(salesRecords, nextId), threads[t])} :
               /\ threads' = [threads EXCEPT ![t].phase = "returned", ![t].answer = answer]
               /\ salesRecords' = answer.st.rows
               /\ nextId' = answer.st.nextId
        /\ UNCHANGED <<p, htmlData, pc, tableData, rowIdx, result, err, resp, dbService,
                       migrationVars>>

NextOptions ==
    \/ Startup
    \/ OptionsBegin
    \/ OptionsUsePositional
    \/ OptionsColumns
    \/ OptionsStrictMode
    \/ OptionsParse
    \/ OptionsImport

SpecOptions == InitOptions /\ [][NextOptions]_vars

\* the call t has parsed its input as ParseHTML parses it under the mapping
\* and strict mode of the options of the call
ParsedUnderOwnOptions(t) ==
    \E own \in {configureParser(NewHTMLTableParser, threads[t].options)} :
        \E alone \in {runCall(own, NewCall(own, threads[t].htmlData))} :
            /\ threads[t].pc = alone.pc
            /\ threads[t].result = alone.result
            /\ threads[t].err = alone.err

\* C25: for every interleaving of two calls of ImportHTMLDataWithOptions on
\* one App, a call whose ParseHTML has returned has parsed its input under
\* the positional mapping and strict mode of its own options.
C25_OwnOptionsWhenConcurrent ==
    \A t \in DOMAIN threads :
        (threads[t].phase \in {"parse", "returned"} /\ threads[t].pc \in {"done", "failed"})
            => ParsedUnderOwnOptions(t)

\* C26: with header matching, the column mapping of a parse that reached its
\* row loop is injective: no two fields resolve to the same column.
C26_MappingInjective ==
    (InLoop /\ ~Positional) =>
        \A f, g \in DOMAIN result.ColumnMapping :
            f # g => result.ColumnMapping[f] # result.ColumnMapping[g]

\* the rows of the input that have a cell, their cells trimmed: the bare
\* rows, or the rows of the table that is selected
InputRows ==
    IF htmlData.kind = "rows" THEN BareCells
    ELSE extractTableData(selectBestTable(htmlData.tables))

\* the input has no header row: it is bare rows, or no cell of the first
\* row of its table is matched by an accepted header text
Headerless ==
    \/ htmlData.kind = "rows"
    \/ /\ htmlData.kind = "tables"
       /\ Len(htmlData.tables) > 0
       /\ InputRows # <<>>
       /\ Unmatched(normalizeHeaders(InputRows[1])) = Fields

\* C27: with a positional mapping and input without a header row, bare or
\* inside a table element, TotalRows is the number of input rows that have a
\* cell and the row loop runs over all of them, the first included; every
\* one of them is counted as decoded or failed.
C27_NoRowLostPositional ==
    (Positional /\ InLoop /\ Headerless) =>
        /\ result.TotalRows = Len(InputRows)
        /\ SubSeq(tableData, 2, Len(tableData)) = InputRows
        /\ pc = "done" => result.SuccessCount + result.ErrorCount = Len(InputRows)

\* the return of ParseHTML for the call the App has just answered: the input
\* of the call on the parser the call has used
ParsedForAnswer == runCall(p', NewCall(p', resp'.args[1]))

\* C28: when ParseHTML reports row errors for the input of an import
\* (ErrorCount > 0), the ImportResult of the import carries those errors in
\* ParseErrors, on the per-record path and on the batch path, whether the
\* store took the decoded records or not.
C28_ParseErrorsCarried ==
    [][(dbService /\ dbService' /\ resp'.op \in ImportOps) =>
          \E parsed \in {ParsedForAnswer} :
              (parsed.pc = "done" /\ parsed.result.ErrorCount > 0) =>
                  resp'.result.ParseErrors = parsed.result.Errors]_vars

\* the two imports report the same outcome and leave the same rows stored
SameOutcome(each, batch) ==
    /\ each.result.Success = batch.result.Success
    /\ each.result.TotalRows = batch.result.TotalRows
    /\ each.result.ParsedRows = batch.result.ParsedRows
    /\ each.result.ImportedRows = batch.result.ImportedRows
    /\ each.st.rows = batch.st.rows

\* C29: for the input of an import that the App has answered and the store
\* as it was before the import, ImportHTMLData and ImportHTMLDataBatch come
\* to the same outcome when the store refuses none of the decoded records:
\* the same Success, TotalRows, ParsedRows and ImportedRows and the same
\* rows stored; with no row decoded both report Success false.
C29_PathsAgree ==
    [][(dbService /\ dbService' /\ resp'.op \in {"ImportHTMLData", "ImportHTMLDataBatch"}) =>
          \E each \in {ImportHTMLData(TRUE, p, Store(salesRecords, nextId), resp'.args[1])},
             batch \in {ImportHTMLDataBatch(TRUE, p, Store(salesRecords, nextId), resp'.args[1])} :
              /\ resp'.result \in {each.result, batch.result}
              /\ each.result.ImportErrors = <<>> =>
                     /\ SameOutcome(each, batch)
                     /\ each.result.ParsedRows = 0 =>
                            ~each.result.Success /\ ~batch.result.Success]_vars

(***************************************************************************)
(* GetPivotTableData while records are created and deleted.  The function  *)
(* runs three queries, each on the store as it is when the query runs: a   *)
(* step of the call is one query, and requests of other callers take       *)
(* place between the steps.                                                *)
(***************************************************************************)
\* the years GetPivotTableData is called for: nil and one year
PivotYears == {{}, {<<"2","0","2","4">>}}

\* PivotTableData
PivotTableData(yearly, monthly, daily) ==
    [YearlyData |-> yearly, MonthlyData |-> monthly, DailyData |-> daily]

\* a call of GetPivotTableData before its first query
PivotCall(year) ==
    [year |-> year, pc |-> "yearly", data |-> PivotTableData(<<>>, <<>>, <<>>)]

\* the yearly entries that are kept: all when year is nil, else the first
\* of the year
filterYearly(yearlyData, year) ==
    IF year = {} THEN yearlyData
    ELSE IF \A i \in 1..Len(yearlyData) : yearlyData[i].year \notin year THEN <<>>
    ELSE <<Head(SelectSeq(yearlyData, LAMBDA n : n.year \in year))>>

\* the store after startup; no call of GetPivotTableData runs
InitPivot == ParserIdle /\ StoreIdle

\* GetPivotTableData is called
PivotBegin ==
    /\ threads = <<>>
    /\ \E year \in PivotYears : threads' = <<PivotCall(year)>>
    /\ UNCHANGED <<p, htmlData, pc, tableData, rowIdx, result, err, storeVars>>

\* the call goes on to its next query with the data it has so far
PivotStep(next, data) ==
    /\ threads' = <<[threads[1] EXCEPT !.pc = next, !.data = data]>>
    /\ UNCHANGED <<p, htmlData, pc, tableData, rowIdx, result, err, storeVars>>

\* GetYearlySummary and the filter by year
PivotYearly ==
    /\ Len(threads) = 1
    /\ threads[1].pc = "yearly"
    /\ PivotStep("monthly", [threads[1].data EXCEPT
                                !.YearlyData = filterYearly(GetYearlySummary, threads[1].year)])

\* GetMonthlySummary(year)
PivotMonthly ==
    /\ Len(threads) = 1
    /\ threads[1].pc = "monthly"
    /\ PivotStep("daily", [threads[1].data EXCEPT
                              !.MonthlyData = GetMonthlySummary(threads[1].year)])

\* GetDailySummary(year, nil), and the return of the three levels
PivotDaily ==
    /\ Len(threads) = 1
    /\ threads[1].pc = "daily"
    /\ threads' = <<>>
    /\ resp' = Response("GetPivotTableData", <<threads[1].year>>, NoError,
                        [threads[1].data EXCEPT
                            !.DailyData = GetDailySummary(threads[1].year, {})])
    /\ UNCHANGED <<p, htmlData, pc, tableData, rowIdx, result, err, salesRecords, nextId,
                   dbService, migrationVars>>

NextPivot ==
    \/ CreateCall
    \/ DeleteCall
    \/ PivotBegin
    \/ PivotYearly
    \/ PivotMonthly
    \/ PivotDaily

SpecPivot == InitPivot /\ [][NextPivot]_vars

\* the three levels of a PivotTableData add up: each yearly entry has the
\* items sold and the totals of the monthly entries of its year, and of the
\* daily entries of its year
LevelsAddUp(data) ==
    \A i \in 1..Len(data.YearlyData) :
        \A column \in {"items_sold", "total_sales", "total_commission", "total_remaining"} :
            /\ data.YearlyData[i].agg[column] =
                   SumOfNodes(SelectSeq(data.MonthlyData,
                                        LAMBDA n : n.year = data.YearlyData[i].year), column)
            /\ data.YearlyData[i].agg[column] =
                   SumOfNodes(SelectSeq(data.DailyData,
                                        LAMBDA n : n.year = data.YearlyData[i].year), column)

\* C30: every PivotTableData that GetPivotTableData returns, with records
\* created and deleted while it runs, has three levels that add up.
C30_PivotSnapshot ==
    resp.op = "GetPivotTableData" => LevelsAddUp(resp.records)

=============================================================================
